---- MODULE Spec2Model ----
(***************************************************************************)
(* Model of the pnplite conversation and commerce engine:                  *)
(*   app/services/whatsapp_service.py  (WhatsAppService)                   *)
(*   app/routers/paystack.py           (paystack_webhook)                  *)
(*   app/routers/whatsapp.py           (whatsapp_webhook)                  *)
(* The document store is the state; every handler is an action.  Several   *)
(* specifications share the variables: each starts from the part of the    *)
(* store its operations need and runs those operations.                    *)
(***************************************************************************)
EXTENDS Integers, Sequences, FiniteSets, TLC

(***************************************************************************)
(* Bounds of the model.                                                    *)
(***************************************************************************)
MaxTotalKobo == 12
MaxSplitMembers == 3
MaxQty == 2
MaxClusters == 1
MaxOrders == 2
MaxLimit == 2

(***************************************************************************)
(* Program constants.                                                      *)
(***************************************************************************)
DELIVERY_FEE == 4500
DEFAULT_LIMIT == 5
KOBO_PER_NAIRA == 100

Phones == {"p1", "p2", "p3"}
NoPhone == "none"

VARIABLES
  members,      \* db.members: phone -> member document
  carts,        \* db.carts: phone -> items of the personal cart
  clusters,     \* db.custom_clusters: sequence of cluster documents, _id = index
  orders,       \* db.orders: sequence of order documents in insertion order
  commissions,  \* db.commissions: sequence of commission documents
  links,        \* payment links issued through PaystackService.initialize_transaction
  sent,         \* messages handed to send_outbound by the last handler
  notes,        \* notifications inserted by the last handler
  result,       \* what the last handler returned to its caller
  procs,        \* handlers in flight (concurrent specifications)
  fn_in,        \* arguments of the pure function under check
  fn_out        \* its result

vars == <<members, carts, clusters, orders, commissions, links, sent, notes,
          result, procs, fn_in, fn_out>>

store == <<members, carts, clusters, orders, commissions, links>>
effects == <<sent, notes, result>>
fnvars == <<fn_in, fn_out>>

(***************************************************************************)
(* Sequence helpers.                                                       *)
(***************************************************************************)
Range(s) == {s[i] : i \in 1..Len(s)}

RECURSIVE SumSeq(_)
SumSeq(s) == IF s = <<>> THEN 0 ELSE Head(s) + SumSeq(Tail(s))

RECURSIVE MaxSeq(_)
MaxSeq(s) == IF Len(s) = 1 THEN s[1]
             ELSE LET m == MaxSeq(Tail(s)) IN IF s[1] > m THEN s[1] ELSE m

RECURSIVE MinSeq(_)
MinSeq(s) == IF Len(s) = 1 THEN s[1]
             ELSE LET m == MinSeq(Tail(s)) IN IF s[1] < m THEN s[1] ELSE m

\* Sequences of distinct elements of S with length 1..n.
DistinctSeqs(S, n) ==
  UNION {{s \in [1..k -> S] : \A i, j \in 1..k : i # j => s[i] # s[j]} : k \in 1..n}

(***************************************************************************)
(* WhatsAppService._split_amount_evenly                                    *)
(***************************************************************************)
split_off_by_one(total_kobo, mlist) ==
  IF mlist = <<>> \/ total_kobo <= 0 THEN <<>>
  ELSE LET count == Len(mlist)
           base == total_kobo \div count
           remainder == total_kobo % count
       IN [idx \in 1..count |->
             [phone |-> mlist[idx],
              share |-> base + (IF idx - 1 <= remainder THEN 1 ELSE 0)]]

split_remainder_last(total_kobo, mlist) ==
  IF mlist = <<>> \/ total_kobo <= 0 THEN <<>>
  ELSE LET count == Len(mlist)
           base == total_kobo \div count
           remainder == total_kobo % count
       IN [idx \in 1..count |->
             [phone |-> mlist[idx],
              share |-> base + (IF idx > count - remainder THEN 1 ELSE 0)]]

_split_amount_evenly(total_kobo, mlist) ==
  IF mlist = <<>> \/ total_kobo <= 0 THEN <<>>
  ELSE LET count == Len(mlist)
           base == total_kobo \div count
           remainder == total_kobo % count
       IN [idx \in 1..count |->
             [phone |-> mlist[idx],
              share |-> base + (IF idx - 1 < remainder THEN 1 ELSE 0)]]

Shares(splits) == [i \in 1..Len(splits) |-> splits[i].share]

(***************************************************************************)
(* Documents of the store.                                                 *)
(***************************************************************************)
NoCluster == 0

\* No product: the None of last_product.
NoProduct == [sku |-> "", name |-> "", price |-> 0]

\* get_member's {} for an unknown phone: every field reads as None.
NoMember ==
  [exists |-> FALSE, state |-> "", name |-> "", city |-> "", membership_type |-> "",
   payment_status |-> "", current_cluster_id |-> NoCluster, address |-> "",
   referred_by |-> "", temp_cluster_name |-> "", last_product |-> NoProduct,
   recent_products |-> <<>>, payment_ref |-> "", last_order_slug |-> <<>>]

\* A member who finished onboarding.
Onboarded(city, pay, addr, cid, ref) ==
  [NoMember EXCEPT !.exists = TRUE, !.state = "idle", !.name = "Amaka", !.city = city,
                   !.membership_type = "monthly", !.payment_status = pay,
                   !.address = addr, !.current_cluster_id = cid, !.referred_by = ref]

\* db.products: the catalogue.
Products ==
  {[sku |-> "s1", name |-> "rice", price |-> 1000],
   [sku |-> "s2", name |-> "oil", price |-> 2500]}

Line(product, qty) ==
  [sku |-> product.sku, name |-> product.name, qty |-> qty, price |-> product.price]

States ==
  {"idle", "awaiting_name", "awaiting_city", "awaiting_lagos_area", "awaiting_membership",
   "awaiting_payment_proof", "awaiting_order", "awaiting_address", "awaiting_cluster_name",
   "awaiting_cluster_limit", "awaiting_cart_action"}

(***************************************************************************)
(* The store as one value, so that a handler is a function from the store  *)
(* before it to the store after it.                                        *)
(***************************************************************************)
DB ==
  [members |-> members, carts |-> carts, clusters |-> clusters, orders |-> orders,
   commissions |-> commissions, links |-> links, sent |-> <<>>, notes |-> <<>>]

Commit(db) ==
  /\ members' = db.members
  /\ carts' = db.carts
  /\ clusters' = db.clusters
  /\ orders' = db.orders
  /\ commissions' = db.commissions
  /\ links' = db.links
  /\ sent' = db.sent
  /\ notes' = db.notes

get_member(db, phone) ==
  IF phone \in Phones THEN db.members[phone] ELSE NoMember

upsert_member_state(db, phone, updates) ==
  LET old == IF db.members[phone].exists THEN db.members[phone]
             ELSE [NoMember EXCEPT !.exists = TRUE]
      new == [f \in DOMAIN old |-> IF f \in DOMAIN updates THEN updates[f] ELSE old[f]]
  IN [db EXCEPT !.members[phone] = new]

add_notification(db, type) == [db EXCEPT !.notes = Append(@, type)]

\* send_outbound when the transport accepts the message.
Deliver(db, to, kind) == [db EXCEPT !.sent = Append(@, [to |-> to, kind |-> kind])]

\* send_outbound inside try/except: a transport failure is swallowed.
TrySend(db, to, kind, transport_ok) ==
  IF transport_ok THEN Deliver(db, to, kind) ELSE db

HasCluster(db, cluster_id) == cluster_id \in 1..Len(db.clusters)

get_custom_cluster(db, cluster_id) == db.clusters[cluster_id]

\* save_custom_cluster of a document that has an _id: $set of every field.
save_custom_cluster(db, cluster_id, cluster) ==
  [db EXCEPT !.clusters[cluster_id] = cluster]

get_cart(db, phone, force_personal) ==
  LET member == get_member(db, phone)
      cluster_id == member.current_cluster_id
  IN IF cluster_id # NoCluster /\ ~force_personal /\ HasCluster(db, cluster_id)
     THEN [phone |-> phone, cluster_id |-> cluster_id,
           cluster_name |-> get_custom_cluster(db, cluster_id).name,
           items |-> get_custom_cluster(db, cluster_id).items]
     ELSE [phone |-> phone, cluster_id |-> NoCluster, cluster_name |-> "",
           items |-> db.carts[phone]]

save_cart(db, cart, force_personal) ==
  IF cart.cluster_id # NoCluster /\ ~force_personal /\ HasCluster(db, cart.cluster_id)
  THEN save_custom_cluster(db, cart.cluster_id,
         [get_custom_cluster(db, cart.cluster_id) EXCEPT !.items = cart.items])
  ELSE [db EXCEPT !.carts[cart.phone] = cart.items]

\* Index of the first line with this sku, 0 when there is none.
FirstSku(items, sku) ==
  IF \E i \in 1..Len(items) : items[i].sku = sku
  THEN CHOOSE i \in 1..Len(items) :
         items[i].sku = sku /\ \A j \in 1..(i - 1) : items[j].sku # sku
  ELSE 0

add_item_always_appends(db, phone, product, qty, force_personal) ==
  LET cart == get_cart(db, phone, force_personal)
  IN save_cart(db, [cart EXCEPT !.items = Append(cart.items, Line(product, qty))],
               force_personal)

add_item_to_cart(db, phone, product, qty, force_personal) ==
  LET cart == get_cart(db, phone, force_personal)
      items == cart.items
      i == FirstSku(items, product.sku)
      new_items == IF i # 0 THEN [items EXCEPT ![i].qty = @ + qty]
                   ELSE Append(items, Line(product, qty))
  IN save_cart(db, [cart EXCEPT !.items = new_items], force_personal)

(***************************************************************************)
(* WhatsAppService.get_user_clusters: ids of the active clusters the phone *)
(* owns or is a member of, in stored order.                                *)
(***************************************************************************)
IsUserCluster(db, phone, c) ==
  /\ db.clusters[c].is_active
  /\ (db.clusters[c].owner_phone = phone \/ phone \in Range(db.clusters[c].members))

get_user_clusters(db, phone) ==
  {c \in 1..Len(db.clusters) : IsUserCluster(db, phone, c)}

(***************************************************************************)
(* WhatsAppService.join_cluster_by_id.  The owner notification is sent     *)
(* outside any try/except: a transport failure leaves the call at that     *)
(* point, after the cluster was saved.                                     *)
(***************************************************************************)
join_without_capacity_check(db, phone, cluster_id, transport_ok) ==
  IF ~HasCluster(db, cluster_id)
  THEN [db |-> db, msg |-> "cluster_not_found", raised |-> FALSE]
  ELSE
    LET cluster == get_custom_cluster(db, cluster_id)
        member == get_member(db, phone)
        db1 == save_custom_cluster(db, cluster_id,
                 [cluster EXCEPT !.members = Append(@, phone)])
    IN IF member.payment_status # "paid"
       THEN [db |-> db, msg |-> "need_subscription", raised |-> FALSE]
       ELSE [db |-> upsert_member_state(db1, phone,
                      [current_cluster_id |-> cluster_id, state |-> "idle"]),
             msg |-> "joined", raised |-> FALSE]

join_without_subscription_check(db, phone, cluster_id, transport_ok) ==
  IF ~HasCluster(db, cluster_id)
  THEN [db |-> db, msg |-> "cluster_not_found", raised |-> FALSE]
  ELSE
    LET cluster == get_custom_cluster(db, cluster_id)
        is_new == phone \notin Range(cluster.members)
        db1 == IF is_new
               THEN save_custom_cluster(db, cluster_id,
                      [cluster EXCEPT !.members = Append(@, phone)])
               ELSE db
        notify == is_new /\ cluster.owner_phone # phone
        db2 == IF notify THEN Deliver(db1, cluster.owner_phone, "member_joined") ELSE db1
    IN IF Len(cluster.members) >= cluster.max_people
       THEN [db |-> db, msg |-> "cluster_full", raised |-> FALSE]
       ELSE IF notify /\ ~transport_ok
       THEN [db |-> db1, msg |-> "", raised |-> TRUE]
       ELSE [db |-> upsert_member_state(db2, phone,
                      [current_cluster_id |-> cluster_id, state |-> "idle"]),
             msg |-> "joined", raised |-> FALSE]

join_cluster_by_id(db, phone, cluster_id, transport_ok) ==
  IF ~HasCluster(db, cluster_id)
  THEN [db |-> db, msg |-> "cluster_not_found", raised |-> FALSE]
  ELSE
    LET cluster == get_custom_cluster(db, cluster_id)
        member == get_member(db, phone)
        is_new == phone \notin Range(cluster.members)
        db1 == IF is_new
               THEN save_custom_cluster(db, cluster_id,
                      [cluster EXCEPT !.members = Append(@, phone)])
               ELSE db
        notify == is_new /\ cluster.owner_phone # phone
        db2 == IF notify THEN Deliver(db1, cluster.owner_phone, "member_joined") ELSE db1
    IN IF member.payment_status # "paid"
       THEN [db |-> db, msg |-> "need_subscription", raised |-> FALSE]
       ELSE IF Len(cluster.members) >= cluster.max_people
       THEN [db |-> db, msg |-> "cluster_full", raised |-> FALSE]
       ELSE IF notify /\ ~transport_ok
       THEN [db |-> db1, msg |-> "", raised |-> TRUE]
       ELSE [db |-> upsert_member_state(db2, phone,
                      [current_cluster_id |-> cluster_id, state |-> "idle"]),
             msg |-> "joined", raised |-> FALSE]

(***************************************************************************)
(* WhatsAppService.handle_inbound.  An inbound message is the record of    *)
(* what the code reads from it and of what its collaborators answer in     *)
(* the turn:                                                               *)
(*   join_id      id after a JOIN_CLUSTER_ token, NoToken without one      *)
(*   names        cluster names that occur in the text as whole words      *)
(*   referred     text after "referred by", "" without it                  *)
(*   text         body_clean, as the slot value it is stored as            *)
(*   digits       first integer in the text, NoDigits without one          *)
(*   media        a media attachment came with the message                 *)
(*   ai           an intent gateway is configured (ai_service)             *)
(*   intent       classify_intent: a token, "none", "timeout" or "error"   *)
(*   extract      slot extraction by the gateway, "" when it yields none   *)
(*   fallback     deterministic fallback match of the text, "" when none   *)
(*   actions      extract_cart_action: sequence of actions                 *)
(*   results      search_products for the text: sequence of products       *)
(*   pay          initialize_transaction: "ok", "none" (no link), "raise"  *)
(*   pay_fail     members whose cluster pay link cannot be created         *)
(*   transport_ok the messaging transport accepts messages                 *)
(***************************************************************************)
NoToken == 0 - 1
NoDigits == 0 - 1

Returned(db, arity, reply, next_state, intent) ==
  [db |-> db,
   ret |-> [kind |-> "returned", arity |-> arity, reply |-> reply,
            next_state |-> next_state, intent |-> intent]]

Raised(db, where) ==
  [db |-> db, ret |-> [kind |-> "raised", where |-> where]]

\* The new-member branch without its upsert to awaiting_name.
new_member_stays_idle(db, phone, msg) ==
  LET doc == [NoMember EXCEPT !.exists = TRUE, !.state = "idle",
                             !.payment_status = "unpaid"]
  IN Returned(add_notification([db EXCEPT !.members[phone] = doc], "member"),
              6, "intro", "awaiting_name", "onboard")

\* New member: whatsapp_service.py 1186-1229.
TurnNewMember(db, phone, msg) ==
  LET doc == [NoMember EXCEPT !.exists = TRUE, !.state = "idle",
                             !.payment_status = "unpaid"]
      db1 == add_notification([db EXCEPT !.members[phone] = doc], "member")
      db2 == upsert_member_state(db1, phone, [state |-> "awaiting_name"])
  IN Returned(db2, 6, "intro", "awaiting_name", "onboard")

\* Proactive cluster switching: 1234-1246.  Every user cluster whose name is
\* in the text and whose id differs from the member's (as read at the start of
\* the turn) is written as the active cluster, in stored order.
SwitchTargets(db, phone, member, msg) ==
  {c \in get_user_clusters(db, phone) :
     db.clusters[c].name \in msg.names /\ c # member.current_cluster_id}

MaxOf(S) == CHOOSE x \in S : \A y \in S : y <= x

ProactiveSwitch(db, phone, member, msg) ==
  IF member.state = "idle" /\ msg.join_id = NoToken
     /\ SwitchTargets(db, phone, member, msg) # {}
  THEN upsert_member_state(db, phone,
         [current_cluster_id |-> MaxOf(SwitchTargets(db, phone, member, msg))])
  ELSE db

\* Referral handling: 1248-1251.  msg.referred is what follows "referred by"
\* in the text.  The marker is looked for in the lower-cased text and the
\* split is done on the text as written: when the text holds the marker in
\* another capitalisation only (msg.referred_caps), the split has one part
\* and the index [1] raises.
ReferralHandling(db, phone, msg) ==
  IF msg.referred # "" THEN [db EXCEPT !.members[phone].referred_by = msg.referred]
  ELSE db

\* awaiting_cluster_name: 1254-1262 (a result of five values).
TurnClusterName(db, phone, member, msg) ==
  Returned(upsert_member_state(db, phone,
             [state |-> "awaiting_cluster_limit", temp_cluster_name |-> msg.text]),
           5, "ask_cluster_limit", "awaiting_cluster_limit", "cluster_limit")

\* awaiting_cluster_limit: 1264-1300 (a result of five values).
ParseLimit(msg) == IF msg.digits = NoDigits THEN DEFAULT_LIMIT ELSE msg.digits

NewCluster(name, phone, limit) ==
  [name |-> name, owner_phone |-> phone, max_people |-> limit,
   members |-> <<phone>>, items |-> <<>>, is_active |-> TRUE]

\* The same turn without the write of current_cluster_id.
cluster_limit_keeps_current(db, phone, member, msg) ==
  LET cluster_name == IF member.temp_cluster_name # "" THEN member.temp_cluster_name
                      ELSE "My Cluster"
      db1 == [db EXCEPT !.clusters =
                Append(@, NewCluster(cluster_name, phone, ParseLimit(msg)))]
      db2 == upsert_member_state(db1, phone, [state |-> "idle", temp_cluster_name |-> ""])
  IN Returned(db2, 5, "cluster_created", "idle", "cluster_created")

TurnClusterLimit(db, phone, member, msg) ==
  LET cluster_name == IF member.temp_cluster_name # "" THEN member.temp_cluster_name
                      ELSE "My Cluster"
      db1 == [db EXCEPT !.clusters =
                Append(@, NewCluster(cluster_name, phone, ParseLimit(msg)))]
      db2 == upsert_member_state(db1, phone,
               [state |-> "idle", current_cluster_id |-> Len(db1.clusters),
                temp_cluster_name |-> ""])
  IN Returned(db2, 5, "cluster_created", "idle", "cluster_created")

(***************************************************************************)
(* Orders.                                                                 *)
(***************************************************************************)
Cities == {"", "PH", "Abuja", "Lagos Mainland", "Lagos Island"}

\* WhatsAppService._slug_prefix on the city values onboarding stores.
_slug_prefix(city) ==
  CASE city = "" -> "GEN"
    [] city \in {"Lagos Mainland", "Lagos Island"} -> "LAG"
    [] city = "Abuja" -> "ABJ"
    [] city = "PH" -> "PH"
    [] OTHER -> "GEN"

\* db.orders.count_documents({"city": city})
CountCity(db, city) == Cardinality({i \in 1..Len(db.orders) : db.orders[i].city = city})

NewSlug(db, city) == <<_slug_prefix(city), CountCity(db, city) + 1>>
NoSlug == <<>>
\* The ("RESTRICTED", 0.0) result of create_order_from_cart.
Restricted == <<"RESTRICTED", 0>>

\* find_one / update_one by slug act on the first matching document.
FindSlug(db, slug) ==
  IF \E i \in 1..Len(db.orders) : db.orders[i].slug = slug
  THEN CHOOSE i \in 1..Len(db.orders) :
         db.orders[i].slug = slug /\ \A j \in 1..(i - 1) : db.orders[j].slug # slug
  ELSE 0

\* find_one({"member_phone": phone}, sort=[("created_at", -1)])
LatestOrder(db, phone) ==
  IF \E i \in 1..Len(db.orders) : db.orders[i].member_phone = phone
  THEN CHOOSE i \in 1..Len(db.orders) :
         /\ db.orders[i].member_phone = phone
         /\ \A j \in (i + 1)..Len(db.orders) : db.orders[j].member_phone # phone
  ELSE 0

\* The Order model of schemas.py with its defaults.
OrderDoc(phone, items, total, city, slug, cluster_id, cluster_name, owner, cmembers) ==
  [member_phone |-> phone, items |-> items, total |-> total, status |-> "WAITING_PAYMENT",
   payment_ref |-> "", city |-> city, slug |-> slug, cluster_id |-> cluster_id,
   cluster_name |-> cluster_name, cluster_owner_phone |-> owner,
   cluster_members |-> cmembers, cluster_payments |-> <<>>,
   cluster_paid_amount_kobo |-> 0]

\* create_order_from_text: 552-569 (items parsed from free text, no total).
create_order_from_text(db, phone) ==
  LET member == get_member(db, phone)
  IN [db EXCEPT !.orders = Append(@,
        OrderDoc(phone, <<>>, 0, member.city, NewSlug(db, member.city),
                 NoCluster, "", "", <<>>))]

\* Subtotal of create_order_from_cart: qty = int(it.get("qty") or 1).
RECURSIVE Subtotal(_)
Subtotal(items) ==
  IF items = <<>> THEN 0
  ELSE (IF Head(items).qty = 0 THEN 1 ELSE Head(items).qty) * Head(items).price
       + Subtotal(Tail(items))

OrderItems(items) ==
  [i \in 1..Len(items) |->
     [sku |-> items[i].name, qty |-> IF items[i].qty = 0 THEN 1 ELSE items[i].qty]]

AppendIfAbsent(s, x) == IF x \in Range(s) THEN s ELSE Append(s, x)

create_order_any_member(db, phone) ==
  LET member == get_member(db, phone)
      cluster_id == member.current_cluster_id
      found == cluster_id # NoCluster /\ HasCluster(db, cluster_id)
      cluster == IF found
                 THEN [get_custom_cluster(db, cluster_id) EXCEPT
                         !.members = AppendIfAbsent(@, phone)]
                 ELSE NewCluster("", "", 0)
      cart == get_cart(db, phone, FALSE)
      total == Subtotal(cart.items) + DELIVERY_FEE
      slug == NewSlug(db, member.city)
      order == OrderDoc(phone, OrderItems(cart.items), total, member.city, slug, cluster_id,
                        IF found THEN cluster.name ELSE cart.cluster_name,
                        IF found THEN cluster.owner_phone ELSE "",
                        IF found THEN cluster.members ELSE <<>>)
      db1 == add_notification([db EXCEPT !.orders = Append(@, order)], "order")
      db2 == IF cluster_id # NoCluster
             THEN IF found
                  THEN save_custom_cluster(db1, cluster_id, [cluster EXCEPT !.items = <<>>])
                  ELSE db1
             ELSE save_cart(db1, [phone |-> phone, cluster_id |-> NoCluster,
                                  cluster_name |-> "", items |-> <<>>], FALSE)
  IN IF cart.items = <<>> THEN [db |-> db, slug |-> NoSlug, total |-> 0]
     ELSE [db |-> db2, slug |-> slug, total |-> total]

\* The same call without the clearing of the cart.
create_order_keeps_cart(db, phone) ==
  LET member == get_member(db, phone)
      cluster_id == member.current_cluster_id
      found == cluster_id # NoCluster /\ HasCluster(db, cluster_id)
      cluster == IF found
                 THEN [get_custom_cluster(db, cluster_id) EXCEPT
                         !.members = AppendIfAbsent(@, phone)]
                 ELSE NewCluster("", "", 0)
      cart == get_cart(db, phone, FALSE)
      total == Subtotal(cart.items) + DELIVERY_FEE
      slug == NewSlug(db, member.city)
      order == OrderDoc(phone, OrderItems(cart.items), total, member.city, slug, cluster_id,
                        IF found THEN cluster.name ELSE cart.cluster_name,
                        IF found THEN cluster.owner_phone ELSE "",
                        IF found THEN cluster.members ELSE <<>>)
      db1 == add_notification([db EXCEPT !.orders = Append(@, order)], "order")
  IN IF found /\ cluster.owner_phone # phone
     THEN [db |-> db, slug |-> Restricted, total |-> 0]
     ELSE IF cart.items = <<>> THEN [db |-> db, slug |-> NoSlug, total |-> 0]
     ELSE [db |-> db1, slug |-> slug, total |-> total]

\* create_order_from_cart: 571-663.  slug Restricted for a non-owner.
create_order_from_cart(db, phone) ==
  LET member == get_member(db, phone)
      cluster_id == member.current_cluster_id
      found == cluster_id # NoCluster /\ HasCluster(db, cluster_id)
      cluster == IF found
                 THEN [get_custom_cluster(db, cluster_id) EXCEPT
                         !.members = AppendIfAbsent(@, phone)]
                 ELSE NewCluster("", "", 0)
      cart == get_cart(db, phone, FALSE)
      total == Subtotal(cart.items) + DELIVERY_FEE
      slug == NewSlug(db, member.city)
      order == OrderDoc(phone, OrderItems(cart.items), total, member.city, slug, cluster_id,
                        IF found THEN cluster.name ELSE cart.cluster_name,
                        IF found THEN cluster.owner_phone ELSE "",
                        IF found THEN cluster.members ELSE <<>>)
      db1 == add_notification([db EXCEPT !.orders = Append(@, order)], "order")
      db2 == IF cluster_id # NoCluster
             THEN IF found
                  THEN save_custom_cluster(db1, cluster_id, [cluster EXCEPT !.items = <<>>])
                  ELSE db1
             ELSE save_cart(db1, [phone |-> phone, cluster_id |-> NoCluster,
                                  cluster_name |-> "", items |-> <<>>], FALSE)
  IN IF found /\ cluster.owner_phone # phone
     THEN [db |-> db, slug |-> Restricted, total |-> 0]
     ELSE IF cart.items = <<>> THEN [db |-> db, slug |-> NoSlug, total |-> 0]
     ELSE [db |-> db2, slug |-> slug, total |-> total]

(***************************************************************************)
(* Cluster checkout: WhatsAppService.initiate_cluster_payment_links.       *)
(***************************************************************************)
\* De-duplicate while preserving order: 680-687.
RECURSIVE Dedup(_, _)
Dedup(s, seen) ==
  IF s = <<>> THEN <<>>
  ELSE IF Head(s) = "" \/ Head(s) \in seen THEN Dedup(Tail(s), seen)
  ELSE <<Head(s)>> \o Dedup(Tail(s), seen \cup {Head(s)})

\* 674-687
CleanMembers(cluster) ==
  LET owner_phone == cluster.owner_phone
      ms == IF owner_phone # "" /\ owner_phone \notin Range(cluster.members)
            THEN <<owner_phone>> \o cluster.members
            ELSE cluster.members
  IN Dedup(ms, {})

\* A payment link the gateway issued: the metadata of its charge.success event.
PayLink(type, phone, order_slug, share_kobo, total_kobo, membership_type, owner_phone) ==
  [type |-> type, phone |-> phone, order_slug |-> order_slug, share_kobo |-> share_kobo,
   total_kobo |-> total_kobo, membership_type |-> membership_type,
   owner_phone |-> owner_phone]

\* The $set of 744-755 on the first order with the slug.
StorePaymentList(db, order_slug, payload, clean_members, cluster) ==
  IF FindSlug(db, order_slug) = 0 THEN db
  ELSE [db EXCEPT !.orders[FindSlug(db, order_slug)] =
          [@ EXCEPT !.cluster_payments = payload,
                    !.cluster_members = clean_members,
                    !.cluster_owner_phone = cluster.owner_phone,
                    !.cluster_name = IF cluster.name # "" THEN cluster.name ELSE "Cluster",
                    !.cluster_paid_amount_kobo = 0]]

\* 674-742: the links are requested and sent, the payment list is built.
IssuePaymentLinks(db, order_slug, total_val, cluster, msg) ==
  LET clean_members == CleanMembers(cluster)
      total_kobo == total_val * KOBO_PER_NAIRA
      splits == _split_amount_evenly(total_kobo, clean_members)
      HasLink(s) == s.phone \notin msg.pay_fail
      linked == SelectSeq(splits, HasLink)
      payload == [i \in 1..Len(splits) |->
                    [phone |-> splits[i].phone, amount_kobo |-> splits[i].share,
                     status |-> IF HasLink(splits[i]) THEN "pending" ELSE "error"]]
      new_links == {PayLink("cluster_order", linked[i].phone, order_slug, linked[i].share,
                            total_kobo, "", cluster.owner_phone) : i \in 1..Len(linked)}
      new_sent == IF msg.transport_ok
                  THEN [i \in 1..Len(linked) |-> [to |-> linked[i].phone, kind |-> "pay_link"]]
                  ELSE <<>>
  IN [db |-> [db EXCEPT !.links = @ \cup new_links, !.sent = @ \o new_sent],
      payload |-> payload, clean_members |-> clean_members]

initiate_cluster_payment_links(db, order_slug, total_val, cluster, msg) ==
  LET issued == IssuePaymentLinks(db, order_slug, total_val, cluster, msg)
  IN StorePaymentList(issued.db, order_slug, issued.payload, issued.clean_members, cluster)

(***************************************************************************)
(* WhatsAppService.apply_payment_proof: 923-957.                           *)
(***************************************************************************)
apply_payment_proof(db, phone) ==
  LET latest == LatestOrder(db, phone)
  IN IF latest # 0
     THEN add_notification(
            [db EXCEPT !.orders[latest] = [@ EXCEPT !.payment_ref = "proof", !.status = "PAID"]],
            "payment")
     ELSE add_notification(
            upsert_member_state(db, phone,
              [payment_ref |-> "proof", payment_status |-> "pending_review", state |-> "idle"]),
            "payment")

(***************************************************************************)
(* WhatsAppService.award_referral_commission: 959-1019.                    *)
(***************************************************************************)
\* _looks_like_phone: at least seven digits.  Phones are the stored phone
\* numbers; every other referred_by value of the model is a name.
_looks_like_phone(value) == value \in Phones

\* count_documents({"member_phone": phone, "status": "PAID"})
PaidCount(db, phone) ==
  Cardinality({i \in 1..Len(db.orders) :
                 db.orders[i].member_phone = phone /\ db.orders[i].status = "PAID"})

ExistingCommission(db, phone, order_slug) ==
  \E i \in 1..Len(db.commissions) :
    db.commissions[i].referred_phone = phone /\ db.commissions[i].order_slug = order_slug

\* 964-978: the order names a member referred by a paid member.
ReferrerQualifies(db, order) ==
  /\ order.member_phone # "" /\ order.slug # NoSlug /\ order.total # 0
  /\ get_member(db, order.member_phone).exists
  /\ _looks_like_phone(get_member(db, order.member_phone).referred_by)
  /\ get_member(db, get_member(db, order.member_phone).referred_by).exists
  /\ get_member(db, get_member(db, order.member_phone).referred_by).payment_status = "paid"

CommissionDoc(db, order) ==
  [referrer_phone |-> get_member(db, order.member_phone).referred_by,
   referred_phone |-> order.member_phone, order_slug |-> order.slug,
   amount |-> (order.total * 2) \div 100, status |-> "pending"]

InsertCommission(db, order, transport_ok) ==
  TrySend(add_notification([db EXCEPT !.commissions = Append(@, CommissionDoc(db, order))],
                           "commission"),
          get_member(db, order.member_phone).referred_by, "commission", transport_ok)

award_to_unpaid_referrer(db, order, transport_ok) ==
  IF /\ order.member_phone # "" /\ order.slug # NoSlug /\ order.total # 0
     /\ _looks_like_phone(get_member(db, order.member_phone).referred_by)
     /\ get_member(db, get_member(db, order.member_phone).referred_by).exists
     /\ PaidCount(db, order.member_phone) <= 1
     /\ ~ExistingCommission(db, order.member_phone, order.slug)
  THEN InsertCommission(db, order, transport_ok)
  ELSE db

award_without_existing_check(db, order, transport_ok) ==
  IF /\ ReferrerQualifies(db, order)
     /\ PaidCount(db, order.member_phone) <= 1
  THEN InsertCommission(db, order, transport_ok)
  ELSE db

award_referral_commission(db, order, transport_ok) ==
  IF /\ ReferrerQualifies(db, order)
     /\ PaidCount(db, order.member_phone) <= 1
     /\ ~ExistingCommission(db, order.member_phone, order.slug)
  THEN InsertCommission(db, order, transport_ok)
  ELSE db

(***************************************************************************)
(* handle_inbound: onboarding states, 1302-1544.                           *)
(***************************************************************************)
\* normalize_name: strips a leading "my name is" and title-cases the rest.
normalize_name(text) ==
  CASE text = "my name is amaka" -> "Amaka"
    [] text = "amaka" -> "Amaka"
    [] OTHER -> text

\* The slot value of a state: the gateway's extraction when it yields one,
\* otherwise the keyword fallback of the code.
Slot(msg) == IF msg.ai /\ msg.extract # "" THEN msg.extract ELSE msg.fallback

\* awaiting_name: 1303-1318 (no keyword fallback: the normalised text).
TurnName(db, phone, member, msg) ==
  LET name == IF msg.ai /\ msg.extract # "" THEN msg.extract ELSE normalize_name(msg.text)
  IN Returned(upsert_member_state(db, phone, [name |-> name, state |-> "awaiting_city"]),
              6, "ask_city", "awaiting_city", "city")

\* awaiting_city: 1320-1390.
TurnCity(db, phone, member, msg) ==
  LET city_value == Slot(msg)
  IN CASE city_value = "" -> Returned(db, 6, "ask_city_again", "awaiting_city", "city")
       [] city_value = "Lagos" ->
            Returned(upsert_member_state(db, phone, [state |-> "awaiting_lagos_area"]),
                     6, "ask_lagos_area", "awaiting_lagos_area", "city_lagos")
       [] OTHER ->
            Returned(upsert_member_state(db, phone,
                       [city |-> city_value, state |-> "awaiting_membership"]),
                     6, "ask_membership", "awaiting_membership", "membership")

\* awaiting_lagos_area: 1393-1440 (gateway only, no keyword fallback).
TurnLagosArea(db, phone, member, msg) ==
  LET lagos_area == IF msg.ai THEN msg.extract ELSE ""
  IN IF lagos_area = ""
     THEN Returned(db, 6, "ask_lagos_area_again", "awaiting_lagos_area", "city_lagos")
     ELSE Returned(upsert_member_state(db, phone,
                     [city |-> lagos_area, state |-> "awaiting_membership"]),
                   6, "ask_membership", "awaiting_membership", "membership")

\* awaiting_membership: 1442-1521.  initialize_transaction is awaited outside
\* any try/except, after the member was moved to awaiting_payment_proof.
TurnMembership(db, phone, member, msg) ==
  LET membership == Slot(msg)
      db1 == upsert_member_state(db, phone,
               [membership_type |-> membership, state |-> "awaiting_payment_proof",
                payment_status |-> "pending_review"])
      db2 == [db1 EXCEPT !.links = @ \cup {PayLink("membership", phone, NoSlug, 0, 0, membership, "")}]
  IN CASE membership = "" ->
            Returned(db, 6, "ask_membership_again", "awaiting_membership", "membership")
       [] membership # "" /\ msg.pay = "raise" -> Raised(db1, "initialize_transaction")
       [] membership # "" /\ msg.pay = "ok" ->
            Returned(upsert_member_state(db2, phone, [state |-> "idle"]),
                     6, "membership_link", "idle", "membership_paystack")
       [] OTHER -> Returned(db1, 6, "membership_link_fail", "idle", "membership_paystack_fail")

\* awaiting_payment_proof: 1523-1532 (nothing is written).
TurnPaymentReminder(db, phone, member, msg) ==
  Returned(db, 6, "payment_reminder", "idle", "payment_reminder")

\* awaiting_order: 1534-1544.
TurnOrderCapture(db, phone, member, msg) ==
  Returned(upsert_member_state(create_order_from_text(db, phone), phone, [state |-> "idle"]),
           6, "order_received", "idle", "order_capture")

(***************************************************************************)
(* handle_inbound: checkout, 2059-2137.  member is the record read at the  *)
(* start of the turn (with the address a preceding awaiting_address step   *)
(* put into it); the cart and the cluster are read afresh.                 *)
(***************************************************************************)
OrderLink(phone, order_slug, total_val) ==
  PayLink("order", phone, order_slug, 0, total_val * KOBO_PER_NAIRA, "", "")

\* The checkout of 2059-2137 without the owner checks of 2068 and 587.
checkout_without_owner_check(db, phone, member, msg) ==
  LET cart == get_cart(db, phone, FALSE)
      cluster_id == cart.cluster_id
      o == create_order_any_member(db, phone)
  IN IF cart.items = <<>>
     THEN Returned(db, 6, "cart_empty", "idle", "cart_checkout_empty")
     ELSE IF member.address = ""
     THEN Returned(upsert_member_state(db, phone, [state |-> "awaiting_address"]),
                   6, "need_address", "awaiting_address", "checkout_need_address")
     ELSE IF member.payment_status # "paid"
     THEN Returned(db, 6, "need_subscription", "idle", "checkout_blocked")
     ELSE IF cluster_id # NoCluster
     THEN Returned(
            upsert_member_state(
              initiate_cluster_payment_links(o.db, o.slug, o.total,
                                             get_custom_cluster(db, cluster_id), msg),
              phone, [state |-> "idle", last_order_slug |-> o.slug]),
            6, "cluster_links_sent", "idle", "cart_checkout_cluster")
     ELSE Returned(upsert_member_state(
                     [o.db EXCEPT !.links = @ \cup {OrderLink(phone, o.slug, o.total)}],
                     phone, [state |-> "idle", last_order_slug |-> o.slug]),
                   6, "order_link", "idle", "cart_checkout_paystack")

\* The same turn without the check of payment_status.
checkout_without_paid_check(db, phone, member, msg) ==
  LET cart == get_cart(db, phone, FALSE)
      cluster_id == cart.cluster_id
      o == create_order_from_cart(db, phone)
      placed == upsert_member_state(o.db, phone, [state |-> "idle", last_order_slug |-> o.slug])
  IN CASE cluster_id # NoCluster /\ ~HasCluster(db, cluster_id) ->
            Returned(db, 6, "cluster_missing", "idle", "checkout_cluster_missing")
       [] cluster_id # NoCluster /\ HasCluster(db, cluster_id)
          /\ get_custom_cluster(db, cluster_id).owner_phone # phone ->
            Returned(db, 6, "only_owner", "idle", "checkout_restricted")
       [] OTHER ->
          IF cart.items = <<>>
          THEN Returned(db, 6, "cart_empty", "idle", "cart_checkout_empty")
          ELSE IF member.address = ""
          THEN Returned(upsert_member_state(db, phone, [state |-> "awaiting_address"]),
                        6, "need_address", "awaiting_address", "checkout_need_address")
          ELSE IF o.slug = Restricted
          THEN Returned(o.db, 6, "only_owner", "idle", "checkout_restricted")
          ELSE IF o.slug = NoSlug
          THEN Returned(o.db, 6, "order_failed", "idle", "cart_checkout_fail")
          ELSE IF cluster_id # NoCluster
          THEN Returned(
                 upsert_member_state(
                   initiate_cluster_payment_links(o.db, o.slug, o.total,
                                                  get_custom_cluster(db, cluster_id), msg),
                   phone, [state |-> "idle", last_order_slug |-> o.slug]),
                 6, "cluster_links_sent", "idle", "cart_checkout_cluster")
          ELSE CASE msg.pay = "raise" -> Raised(o.db, "initialize_transaction")
                 [] msg.pay = "ok" ->
                      Returned([placed EXCEPT !.links = @ \cup {OrderLink(phone, o.slug, o.total)}],
                               6, "order_link", "idle", "cart_checkout_paystack")
                 [] OTHER -> Returned(o.db, 5, "order_link_fail", "idle", "cart_checkout_fail")

TurnCheckout(db, phone, member, msg) ==
  LET cart == get_cart(db, phone, FALSE)
      cluster_id == cart.cluster_id
      o == create_order_from_cart(db, phone)
      placed == upsert_member_state(o.db, phone, [state |-> "idle", last_order_slug |-> o.slug])
  IN CASE cluster_id # NoCluster /\ ~HasCluster(db, cluster_id) ->
            Returned(db, 6, "cluster_missing", "idle", "checkout_cluster_missing")
       [] cluster_id # NoCluster /\ HasCluster(db, cluster_id)
          /\ get_custom_cluster(db, cluster_id).owner_phone # phone ->
            Returned(db, 6, "only_owner", "idle", "checkout_restricted")
       [] OTHER ->
          IF cart.items = <<>>
          THEN Returned(db, 6, "cart_empty", "idle", "cart_checkout_empty")
          ELSE IF member.address = ""
          THEN Returned(upsert_member_state(db, phone, [state |-> "awaiting_address"]),
                        6, "need_address", "awaiting_address", "checkout_need_address")
          ELSE IF member.payment_status # "paid"
          THEN Returned(db, 6, "need_subscription", "idle", "checkout_blocked")
          ELSE IF o.slug = Restricted
          THEN Returned(o.db, 6, "only_owner", "idle", "checkout_restricted")
          ELSE IF o.slug = NoSlug
          THEN Returned(o.db, 6, "order_failed", "idle", "cart_checkout_fail")
          ELSE IF cluster_id # NoCluster
          THEN Returned(
                 upsert_member_state(
                   initiate_cluster_payment_links(o.db, o.slug, o.total,
                                                  get_custom_cluster(db, cluster_id), msg),
                   phone, [state |-> "idle", last_order_slug |-> o.slug]),
                 6, "cluster_links_sent", "idle", "cart_checkout_cluster")
          ELSE CASE msg.pay = "raise" -> Raised(o.db, "initialize_transaction")
                 [] msg.pay = "ok" ->
                      Returned([placed EXCEPT !.links = @ \cup {OrderLink(phone, o.slug, o.total)}],
                               6, "order_link", "idle", "cart_checkout_paystack")
                 [] OTHER -> Returned(o.db, 5, "order_link_fail", "idle", "cart_checkout_fail")

(***************************************************************************)
(* handle_inbound: the intents of the idle conversation, 1835-2428.        *)
(***************************************************************************)
\* search_products for an item name: the catalogue lines with that name.
ProductsNamed(name) == {p \in Products : p.name = name}

\* A user cluster with the given name, 0 when there is none: 2001-2006.
ClusterNamed(db, phone, name) ==
  IF \E c \in get_user_clusters(db, phone) : db.clusters[c].name = name
  THEN CHOOSE c \in get_user_clusters(db, phone) :
         /\ db.clusters[c].name = name
         /\ \A d \in get_user_clusters(db, phone) : db.clusters[d].name = name => c <= d
  ELSE NoCluster

\* remove_item_from_cart: 810-836, the first line whose name matches.
remove_item_from_cart(db, phone, item_query, force_personal) ==
  LET cart == get_cart(db, phone, force_personal)
      items == cart.items
      hits == {i \in 1..Len(items) : items[i].name = item_query}
      first == CHOOSE i \in hits : \A j \in hits : i <= j
  IN IF hits = {} THEN db
     ELSE save_cart(db, [cart EXCEPT !.items =
                           [k \in 1..(Len(items) - 1) |->
                              IF k < first THEN items[k] ELSE items[k + 1]]],
                    force_personal)

\* One extracted cart action: 2182-2228.
ApplyAction(db, phone, act, cluster_names) ==
  LET found_c == IF act.cluster_name # "" THEN ClusterNamed(db, phone, act.cluster_name)
                 ELSE NoCluster
      db1 == IF found_c # NoCluster
             THEN upsert_member_state(db, phone, [current_cluster_id |-> found_c])
             ELSE db
      force_p == found_c = NoCluster /\ act.target = "personal"
  IN IF act.item = "" \/ act.item \in cluster_names THEN db1
     ELSE IF act.action = "remove" THEN remove_item_from_cart(db1, phone, act.item, force_p)
     ELSE IF Cardinality(ProductsNamed(act.item)) = 1
     THEN add_item_to_cart(db1, phone, CHOOSE p \in ProductsNamed(act.item) : TRUE,
                           act.qty, force_p)
     ELSE db1

RECURSIVE ApplyActions(_, _, _, _)
ApplyActions(db, phone, actions, cluster_names) ==
  IF actions = <<>> THEN db
  ELSE ApplyActions(ApplyAction(db, phone, Head(actions), cluster_names), phone,
                    Tail(actions), cluster_names)

\* menu_help (1836-1838) and the final fallback (2420-2428): the menu is
\* sent outside any try/except.
TurnMenu(db, phone, msg, intent) ==
  IF msg.transport_ok THEN Returned(Deliver(db, phone, "menu"), 6, "", "idle", intent)
  ELSE Raised(db, "send_outbound")

\* payment_confirmation: 1841-1877.
TurnPaymentConfirmation(db, phone, msg) ==
  IF msg.media
  THEN Returned(apply_payment_proof(db, phone), 6, "proof_received", "idle",
                "payment_proof_received")
  ELSE IF get_member(db, phone).payment_status = "paid"
  THEN Returned(db, 6, "payment_confirmed", "idle", "payment_already_confirmed")
  ELSE Returned(db, 6, "payment_not_confirmed", "idle", "payment_status_inquiry")

\* cluster_create: 1891-1912 (the name prompt is a result of five values).
TurnClusterCreate(db, phone, msg) ==
  IF msg.cname # ""
  THEN Returned(upsert_member_state(db, phone,
                  [state |-> "awaiting_cluster_limit", temp_cluster_name |-> msg.cname]),
                6, "ask_cluster_limit", "awaiting_cluster_limit", "cluster_create_start")
  ELSE Returned(upsert_member_state(db, phone, [state |-> "awaiting_cluster_name"]),
                5, "ask_cluster_name", "awaiting_cluster_name", "cluster_create_name_prompt")

\* cluster_view: 1914-1945 (the empty answer is a result of five values).
TurnClusterView(db, phone, msg) ==
  IF get_user_clusters(db, phone) = {}
  THEN Returned(db, 5, "no_clusters", "idle", "cluster_view_empty")
  ELSE Returned(db, 6, "your_clusters", "idle", "cluster_view")

\* cluster_rename: 1947-1978.
TurnClusterRename(db, phone, member, msg) ==
  LET owned == {c \in get_user_clusters(db, phone) : db.clusters[c].owner_phone = phone}
      cid == member.current_cluster_id
      target == IF cid # NoCluster /\ HasCluster(db, cid)
                   /\ get_custom_cluster(db, cid).owner_phone = phone
                THEN cid
                ELSE CHOOSE c \in owned : \A d \in owned : c <= d
  IN IF msg.rename = ""
     THEN Returned(db, 6, "ask_new_name", "idle", "cluster_rename_prompt")
     ELSE IF owned = {}
     THEN Returned(db, 6, "none_owned", "idle", "cluster_rename_no_owned")
     ELSE Returned(save_custom_cluster(db, target,
                     [get_custom_cluster(db, target) EXCEPT !.name = msg.rename]),
                   6, "renamed", "idle", "cluster_renamed")

\* cart_view: 1989-2056.
TurnCartView(db, phone, msg) ==
  LET spec_cluster_name == IF msg.actions # <<>> THEN msg.actions[1].cluster_name ELSE ""
      found_c == ClusterNamed(db, phone, spec_cluster_name)
  IN IF spec_cluster_name = "" THEN Returned(db, 6, "cart", "idle", "cart_view")
     ELSE IF found_c = NoCluster
     THEN Returned(db, 6, "no_such_cluster", "idle", "cart_view_fail")
     ELSE Returned(upsert_member_state(db, phone, [current_cluster_id |-> found_c]),
                   6, "cart", "idle", "cart_view")

\* General chat and the final fallback: 2398-2428.
TurnChat(db, phone, msg) ==
  IF msg.reply THEN Returned(db, 6, "chat", "idle", "ai_chat")
  ELSE TurnMenu(db, phone, msg, "fallback")

\* cart_add / cart_remove: 2140-2237.  Without extracted actions the turn
\* goes on to the general chat.
TurnCartMod(db, phone, msg) ==
  LET cluster_names == {db.clusters[c].name : c \in get_user_clusters(db, phone)}
  IN IF msg.button # "" /\ \E p \in Products : p.sku = msg.button
     THEN Returned(add_item_to_cart(db, phone, CHOOSE p \in Products : p.sku = msg.button,
                                    1, FALSE),
                   6, "added", "idle", "cart_add_payload")
     ELSE IF msg.actions # <<>>
     THEN Returned(ApplyActions(db, phone, msg.actions, cluster_names),
                   6, "cart_updated", "idle", "cart_mod")
     ELSE TurnChat(db, phone, msg)

\* catalog_search: 2240-2396.  The member is moved to awaiting_cart_action
\* before the product cards are sent outside any try/except.
TurnCatalogSearch(db, phone, msg) ==
  LET shown == upsert_member_state(db, phone,
                 [state |-> "awaiting_cart_action", last_product |-> msg.results[1],
                  recent_products |-> msg.results])
  IN IF msg.results = <<>>
     THEN Returned(db, 6, "not_found", "idle", "catalog_no_results")
     ELSE IF msg.transport_ok
     THEN Returned(Deliver(shown, phone, "product_cards"), 6, "", "awaiting_cart_action",
                   "catalogue_search")
     ELSE Raised(shown, "send_outbound")

(***************************************************************************)
(* handle_inbound: intent classification and dispatch, 1766-2428.          *)
(***************************************************************************)
\* AIService.classify_intent, ai.py 60-131: the token the provider answers;
\* every exception of the provider call is caught and None is returned.
classify_intent(answer) == IF answer = "error" THEN "none" ELSE answer

\* 1801-1818: no answer and a timeout both default to catalog_search.
IntentGuess(msg) ==
  IF classify_intent(msg.intent) \in {"none", "timeout"} THEN "catalog_search"
  ELSE classify_intent(msg.intent)

Dispatch(db, phone, member, msg) ==
  CASE IntentGuess(msg) = "menu_help" -> TurnMenu(db, phone, msg, "menu_help")
    [] IntentGuess(msg) = "payment_confirmation" -> TurnPaymentConfirmation(db, phone, msg)
    [] IntentGuess(msg) = "cluster_join" ->
         Returned(db, 6, "use_invite_link", "idle", "cluster_join_link_required")
    [] IntentGuess(msg) = "cluster_create" -> TurnClusterCreate(db, phone, msg)
    [] IntentGuess(msg) = "cluster_view" -> TurnClusterView(db, phone, msg)
    [] IntentGuess(msg) = "cluster_rename" -> TurnClusterRename(db, phone, member, msg)
    [] IntentGuess(msg) = "referral_link" -> Returned(db, 6, "referral_link", "idle", "referral")
    [] IntentGuess(msg) = "cart_view" -> TurnCartView(db, phone, msg)
    [] IntentGuess(msg) = "cart_checkout" -> TurnCheckout(db, phone, member, msg)
    [] IntentGuess(msg) \in {"cart_add", "cart_remove"} -> TurnCartMod(db, phone, msg)
    [] IntentGuess(msg) = "catalog_search" -> TurnCatalogSearch(db, phone, msg)
    [] OTHER -> TurnChat(db, phone, msg)

\* 1774-1792: the JOIN_CLUSTER_ override, then the gateway requirement (a
\* result of five values without a gateway).
MainFlow(db, phone, member, msg) ==
  IF msg.join_id # NoToken
  THEN LET j == join_cluster_by_id(db, phone, msg.join_id, msg.transport_ok)
       IN IF j.raised THEN Raised(j.db, "send_outbound")
          ELSE Returned(j.db, 6, j.msg, "idle", "cluster_join_response")
  ELSE IF ~msg.ai
  THEN Returned(db, 5, "ai_unavailable", "idle", "ai_unavailable")
  ELSE Dispatch(db, phone, member, msg)

\* The text the code substitutes before it goes on to the checkout: 1550, 1600.
AsCheckout(msg) == [msg EXCEPT !.text = "CHECKOUT", !.join_id = NoToken]

\* awaiting_address: 1546-1555.
TurnAddress(db, phone, member, msg) ==
  MainFlow(upsert_member_state(db, phone, [address |-> msg.text, state |-> "idle"]),
           phone, [member EXCEPT !.address = msg.text, !.state = "idle"], AsCheckout(msg))

\* awaiting_cart_action: 1558-1764.
ClearSelection(db, phone) ==
  upsert_member_state(db, phone,
    [state |-> "idle", last_product |-> NoProduct, recent_products |-> <<>>])

TurnCartAction(db, phone, member, msg) ==
  LET product == member.last_product
      recent_products == member.recent_products
      selected == IF Len(recent_products) > 1 /\ msg.pick \in Range(recent_products)
                  THEN msg.pick ELSE product
  IN IF product = NoProduct
     THEN Returned(ClearSelection(db, phone), 6, "start_over", "idle", "")
     ELSE IF ~msg.ai
     THEN Returned(db, 6, "ai_unavailable", "idle", "ai_unavailable")
     ELSE CASE msg.intent_check = "cart_checkout" ->
                 MainFlow(ClearSelection(db, phone), phone,
                          [member EXCEPT !.state = "idle"], AsCheckout(msg))
            [] msg.intent_check = "cart_add" ->
                 IF Len(recent_products) > 1 /\ msg.simple_add
                 THEN Returned(db, 6, "which_product", "awaiting_cart_action",
                               "cart_add_clarify")
                 ELSE Returned(ClearSelection(add_item_to_cart(db, phone, selected, 1, FALSE),
                                              phone),
                               6, "added", "idle", "cart_add")
            [] msg.intent_check \in {"cart_view", "order_help", "other", "catalog_search"} ->
                 MainFlow(ClearSelection(db, phone), phone, member, msg)
            [] OTHER ->
                 Returned(db, 6, "cart_prompt", "awaiting_cart_action", "cart_prompt")

(***************************************************************************)
(* WhatsAppService.handle_inbound: 1165-2428, for a phone that is not an   *)
(* admin phone.  The result is the store after the turn and what the call  *)
(* hands to its caller.                                                    *)
(***************************************************************************)
handle_inbound(db, phone, msg) ==
  LET member == get_member(db, phone)
      db1 == ReferralHandling(ProactiveSwitch(db, phone, member, msg), phone, msg)
  IN IF ~member.exists THEN TurnNewMember(db, phone, msg)
     ELSE IF msg.referred_caps
     THEN Raised(ProactiveSwitch(db, phone, member, msg), "referral_handling")
     ELSE CASE member.state = "awaiting_cluster_name" -> TurnClusterName(db1, phone, member, msg)
            [] member.state = "awaiting_cluster_limit" -> TurnClusterLimit(db1, phone, member, msg)
            [] member.state = "awaiting_name" -> TurnName(db1, phone, member, msg)
            [] member.state = "awaiting_city" -> TurnCity(db1, phone, member, msg)
            [] member.state = "awaiting_lagos_area" -> TurnLagosArea(db1, phone, member, msg)
            [] member.state = "awaiting_membership" -> TurnMembership(db1, phone, member, msg)
            [] member.state = "awaiting_payment_proof" ->
                 TurnPaymentReminder(db1, phone, member, msg)
            [] member.state = "awaiting_order" -> TurnOrderCapture(db1, phone, member, msg)
            [] member.state = "awaiting_address" -> TurnAddress(db1, phone, member, msg)
            [] member.state = "awaiting_cart_action" -> TurnCartAction(db1, phone, member, msg)
            [] OTHER -> MainFlow(db1, phone, member, msg)

\* whatsapp_webhook, routers/whatsapp.py 62-64: the caller unpacks six
\* values; a result of another length, like an exception of the call, ends
\* the request with an error.
CallerAccepts(ret) == ret.kind = "returned" /\ ret.arity = 6

(***************************************************************************)
(* routers/paystack.py: paystack_webhook for a charge.success event with   *)
(* a valid signature.  The event is the metadata of a link the gateway     *)
(* issued; the amount paid is the amount the link was initialised with.    *)
(***************************************************************************)
\* membership branch: 89-104 (update_one without upsert).
WebhookMembership(db, ev, transport_ok) ==
  TrySend(IF get_member(db, ev.phone).exists
          THEN [db EXCEPT !.members[ev.phone] =
                  [@ EXCEPT !.payment_status = "paid", !.membership_type = ev.membership_type]]
          ELSE db,
          ev.phone, "membership_activated", transport_ok)

\* order branch: 106-145.
MarkOrderPaid(db, order_slug) ==
  [db EXCEPT !.orders[FindSlug(db, order_slug)].status = "PAID"]

WebhookOrder(db, ev, transport_ok) ==
  IF FindSlug(db, ev.order_slug) = 0 THEN db
  ELSE LET db1 == add_notification(
                    TrySend(MarkOrderPaid(db, ev.order_slug), ev.phone, "order_paid",
                            transport_ok),
                    "payment")
       IN award_referral_commission(db1, db1.orders[FindSlug(db1, ev.order_slug)],
                                    transport_ok)

\* cluster_order branch, 160-185: the payer's entry becomes PAID, or a PAID
\* entry is appended when the list has none for the payer.
FirstEntry(payments, phone) ==
  IF \E i \in 1..Len(payments) : payments[i].phone = phone
  THEN CHOOSE i \in 1..Len(payments) :
         payments[i].phone = phone /\ \A j \in 1..(i - 1) : payments[j].phone # phone
  ELSE 0

record_always_appends(payments, phone, amount_paid) ==
  Append(payments, [phone |-> phone, amount_kobo |-> amount_paid, status |-> "PAID"])

RecordPayment(payments, phone, amount_paid) ==
  IF FirstEntry(payments, phone) # 0
  THEN [payments EXCEPT ![FirstEntry(payments, phone)] =
          [@ EXCEPT !.status = "PAID", !.amount_kobo = amount_paid]]
  ELSE Append(payments, [phone |-> phone, amount_kobo |-> amount_paid, status |-> "PAID"])

\* 187
paid_amount_counts_all(payments) ==
  SumSeq([i \in 1..Len(payments) |-> payments[i].amount_kobo])

PaidAmount(payments) ==
  SumSeq([i \in 1..Len(payments) |->
            IF payments[i].status = "PAID" THEN payments[i].amount_kobo ELSE 0])

\* 194
PaidEntries(payments) ==
  Cardinality({i \in 1..Len(payments) : payments[i].status = "PAID"})

\* 188-196
AllPaid(order, payments, total_kobo_target) ==
  \/ PaidAmount(payments) >= total_kobo_target
  \/ Len(order.cluster_members) # 0 /\ PaidEntries(payments) >= Len(order.cluster_members)

\* 206-252: payer, owner and the other members are told, each in a try.
RECURSIVE TellMembers(_, _, _, _)
TellMembers(db, ms, skip, transport_ok) ==
  IF ms = <<>> THEN db
  ELSE TellMembers(IF Head(ms) \in skip THEN db
                   ELSE TrySend(db, Head(ms), "someone_paid", transport_ok),
                   Tail(ms), skip, transport_ok)

\* cluster_order branch from line 160 on, for the order document the
\* find_one of line 156 returned: the list of that document is changed in
\* memory and written back whole by the $set of line 204.
ClusterOrderApply(db, order, ev, transport_ok) ==
  LET idx == FindSlug(db, ev.order_slug)
      payments == RecordPayment(order.cluster_payments, ev.phone, ev.share_kobo)
      all_paid == AllPaid(order, payments, ev.total_kobo)
      owner_phone == IF ev.owner_phone # "" THEN ev.owner_phone
                     ELSE order.cluster_owner_phone
      db1 == [db EXCEPT !.orders[idx] =
                [@ EXCEPT !.cluster_payments = payments,
                          !.cluster_paid_amount_kobo = PaidAmount(payments),
                          !.status = IF all_paid THEN "PAID" ELSE @]]
      db2 == TrySend(add_notification(db1, "payment"), ev.phone, "share_paid", transport_ok)
      db3 == IF owner_phone # "" THEN TrySend(db2, owner_phone, "member_paid", transport_ok)
             ELSE db2
      db4 == TellMembers(db3, order.cluster_members, {ev.phone, owner_phone}, transport_ok)
      db5 == IF owner_phone # ""
             THEN TrySend(add_notification(db4, "payment"), owner_phone, "all_paid",
                          transport_ok)
             ELSE add_notification(db4, "payment")
  IN IF all_paid
     THEN award_referral_commission(db5, db5.orders[FindSlug(db5, ev.order_slug)],
                                    transport_ok)
     ELSE db4

WebhookClusterOrder(db, ev, transport_ok) ==
  IF FindSlug(db, ev.order_slug) = 0 THEN db
  ELSE ClusterOrderApply(db, db.orders[FindSlug(db, ev.order_slug)], ev, transport_ok)

paystack_webhook(db, ev, transport_ok) ==
  CASE ev.type = "membership" -> WebhookMembership(db, ev, transport_ok)
    [] ev.type = "order" -> WebhookOrder(db, ev, transport_ok)
    [] ev.type = "cluster_order" -> WebhookClusterOrder(db, ev, transport_ok)
    [] OTHER -> db

(***************************************************************************)
(* join_cluster_by_id as the steps between its awaits, for calls that      *)
(* overlap: the reads and checks (1135-1144), the write of the whole       *)
(* cluster document the call read (1146-1148), and the owner notification  *)
(* with the member update (1150-1159).                                     *)
(***************************************************************************)
NoJoin == [pc |-> "idle", cluster_id |-> NoCluster, cluster |-> NewCluster("", "", 0)]

JoinRejection(db, phone, cluster_id) ==
  CASE ~HasCluster(db, cluster_id) -> "cluster_not_found"
    [] HasCluster(db, cluster_id) /\ get_member(db, phone).payment_status # "paid" ->
         "need_subscription"
    [] HasCluster(db, cluster_id) /\ get_member(db, phone).payment_status = "paid"
       /\ Len(get_custom_cluster(db, cluster_id).members)
            >= get_custom_cluster(db, cluster_id).max_people -> "cluster_full"
    [] OTHER -> ""

JoinRead(db, phone, cluster_id) ==
  IF JoinRejection(db, phone, cluster_id) # "" THEN NoJoin
  ELSE [pc |-> IF phone \in Range(get_custom_cluster(db, cluster_id).members)
               THEN "finish" ELSE "save",
        cluster_id |-> cluster_id, cluster |-> get_custom_cluster(db, cluster_id)]

JoinWrite(db, phone, job) ==
  save_custom_cluster(db, job.cluster_id, [job.cluster EXCEPT !.members = Append(@, phone)])

JoinDone(db, phone, job, notify, transport_ok) ==
  IF notify /\ job.cluster.owner_phone # phone /\ ~transport_ok THEN db
  ELSE upsert_member_state(
         IF notify /\ job.cluster.owner_phone # phone
         THEN Deliver(db, job.cluster.owner_phone, "member_joined") ELSE db,
         phone, [current_cluster_id |-> job.cluster_id, state |-> "idle"])

\* An inbound message that says nothing in particular.
BaseMsg ==
  [join_id |-> NoToken, names |-> {}, referred |-> "", referred_caps |-> FALSE,
   text |-> "hello",
   digits |-> NoDigits, media |-> FALSE, ai |-> TRUE, intent_check |-> "other",
   intent |-> "other", extract |-> "", fallback |-> "", cname |-> "", rename |-> "",
   simple_add |-> FALSE, pick |-> NoProduct, button |-> "", actions |-> <<>>,
   results |-> <<>>, reply |-> TRUE, pay |-> "ok", pay_fail |-> {}, transport_ok |-> TRUE]

(***************************************************************************)
(* The order branch of paystack_webhook with award_referral_commission as  *)
(* the steps between their awaits, for deliveries that overlap:            *)
(*   mark      update_one status PAID            routers/paystack.py 110   *)
(*   find      find_one of the order, the reads of member and referrer     *)
(*             routers/paystack.py 139, whatsapp_service.py 964-978        *)
(*   count     count_documents of the PAID orders   whatsapp_service 981   *)
(*   existing  find_one of a commission for the order          986         *)
(*   insert    insert_one of the commission                    999         *)
(***************************************************************************)
NoDelivery == [pc |-> "idle", ev |-> PayLink("", "", NoSlug, 0, 0, "", ""), order_idx |-> 0]

DeliveryMark(db, ev, transport_ok) ==
  IF FindSlug(db, ev.order_slug) = 0 THEN db
  ELSE add_notification(
         TrySend(MarkOrderPaid(db, ev.order_slug), ev.phone, "order_paid", transport_ok),
         "payment")

DeliveryAfterMark(db, ev) ==
  IF FindSlug(db, ev.order_slug) = 0 THEN NoDelivery
  ELSE [pc |-> "find", ev |-> ev, order_idx |-> 0]

DeliveryAfterFind(db, job) ==
  IF FindSlug(db, job.ev.order_slug) # 0
     /\ ReferrerQualifies(db, db.orders[FindSlug(db, job.ev.order_slug)])
  THEN [job EXCEPT !.pc = "count", !.order_idx = FindSlug(db, job.ev.order_slug)]
  ELSE NoDelivery

DeliveryAfterCount(db, job) ==
  IF PaidCount(db, db.orders[job.order_idx].member_phone) > 1 THEN NoDelivery
  ELSE [job EXCEPT !.pc = "existing"]

DeliveryAfterExisting(db, job) ==
  IF ExistingCommission(db, db.orders[job.order_idx].member_phone,
                        db.orders[job.order_idx].slug)
  THEN NoDelivery
  ELSE [job EXCEPT !.pc = "insert"]

(***************************************************************************)
(* Specification SpecSplit: the split routine on bounded inputs.           *)
(***************************************************************************)
NoResult == [kind |-> "none"]
EmptyStore ==
  /\ members = [p \in Phones |-> NoMember]
  /\ carts = [p \in Phones |-> <<>>]
  /\ clusters = <<>>
  /\ orders = <<>>
  /\ commissions = <<>>
  /\ links = {}
NoEffects ==
  /\ sent = <<>>
  /\ notes = <<>>
  /\ result = NoResult

SplitTotals == (0..MaxTotalKobo) \cup {10000}

InitSplit ==
  /\ EmptyStore
  /\ NoEffects
  /\ procs = <<>>
  /\ fn_in \in [total_kobo : SplitTotals, members : DistinctSeqs(Phones, MaxSplitMembers)]
  /\ fn_out = [done |-> FALSE]

SplitCall ==
  /\ fn_out.done = FALSE
  /\ fn_out' = [done |-> TRUE, splits |-> _split_amount_evenly(fn_in.total_kobo, fn_in.members)]
  /\ UNCHANGED <<store, effects, procs, fn_in>>

NextSplit == SplitCall

SpecSplit == InitSplit /\ [][NextSplit]_vars

SplitContract(total_kobo, mlist, splits) ==
  /\ Len(splits) = Len(mlist)
  /\ \A i \in 1..Len(splits) : splits[i].phone = mlist[i]
  /\ SumSeq(Shares(splits)) = total_kobo
  /\ MaxSeq(Shares(splits)) - MinSeq(Shares(splits)) <= 1

\* C1 (as stated): for every total_kobo >= 0 and every de-duplicated member
\* list of length n >= 1 the routine returns n (member, share) pairs whose
\* shares sum to total_kobo and differ by at most 1.
C1_SplitFromZero ==
  (fn_out.done /\ fn_in.total_kobo >= 0 /\ Len(fn_in.members) >= 1)
    => SplitContract(fn_in.total_kobo, fn_in.members, fn_out.splits)

\* C1 (amended): the same for every total_kobo >= 1; for total_kobo = 0 the
\* routine returns no pair at all.
C1_SplitEven ==
  /\ (fn_out.done /\ fn_in.total_kobo >= 1 /\ Len(fn_in.members) >= 1)
       => SplitContract(fn_in.total_kobo, fn_in.members, fn_out.splits)
  /\ (fn_out.done /\ fn_in.total_kobo = 0) => fn_out.splits = <<>>

C1_Witness ==
  /\ fn_out.done
  /\ fn_in.total_kobo = 11
  /\ Len(fn_in.members) = 3
  /\ Shares(fn_out.splits) = <<4, 4, 3>>

\* The list initiate_cluster_payment_links splits over (674-687), for a
\* cluster whose stored members are the given list and whose owner is its
\* first element.
OwnerFirstList(mlist) == CleanMembers([owner_phone |-> mlist[1], members |-> mlist])

\* C18: for total_kobo >= 1 and a member list of length n >= 1 in list order
\* with the owner first, the i-th member (counting from 0) is charged
\* total_kobo // n + 1 when i < total_kobo % n and total_kobo // n otherwise,
\* so that no later member is charged more than an earlier one.
C18_RemainderToEarliest ==
  (fn_out.done /\ fn_in.total_kobo >= 1 /\ Len(fn_in.members) >= 1) =>
    LET n == Len(fn_in.members)
        total == fn_in.total_kobo
    IN /\ OwnerFirstList(fn_in.members) = fn_in.members
       /\ Len(fn_out.splits) = n
       /\ \A k \in 1..n :
            /\ fn_out.splits[k].phone = fn_in.members[k]
            /\ fn_out.splits[k].share =
                 IF k - 1 < total % n THEN (total \div n) + 1 ELSE total \div n
       /\ \A i, j \in 1..n : i < j => fn_out.splits[i].share >= fn_out.splits[j].share

C18_Witness ==
  /\ fn_out.done
  /\ fn_in.total_kobo = 10000
  /\ fn_in.members = <<"p1", "p2", "p3">>
  /\ Shares(fn_out.splits) = <<3334, 3333, 3333>>

(***************************************************************************)
(* Specification SpecCart: add_item_to_cart calls, one after the other, on *)
(* a shared cluster cart and on personal carts.                            *)
(***************************************************************************)
Family ==
  [name |-> "Family", owner_phone |-> "p1", max_people |-> 3,
   members |-> <<"p1", "p2">>, items |-> <<>>, is_active |-> TRUE]

CartActors == {"p1", "p2"}

InitCart ==
  /\ members = [p \in Phones |->
       IF p \in CartActors THEN Onboarded("PH", "paid", "addr", 1, "")
       ELSE Onboarded("PH", "paid", "addr", NoCluster, "")]
  /\ carts = [p \in Phones |-> <<>>]
  /\ clusters = <<Family>>
  /\ orders = <<>>
  /\ commissions = <<>>
  /\ links = {}
  /\ NoEffects
  /\ procs = <<>>
  /\ fn_in = <<>>
  /\ fn_out = <<>>

\* The quantity a line would hold after the call.
QtyAfter(items, product, qty) ==
  IF FirstSku(items, product.sku) # 0
  THEN items[FirstSku(items, product.sku)].qty + qty ELSE qty

AddItemCall ==
  \E phone \in CartActors, product \in Products, qty \in 1..MaxQty,
     force_personal \in BOOLEAN :
    LET before == get_cart(DB, phone, force_personal).items IN
    /\ QtyAfter(before, product, qty) <= MaxQty
    /\ Commit(add_item_to_cart(DB, phone, product, qty, force_personal))
    /\ result' = [kind |-> "add_item", phone |-> phone, product |-> product, qty |-> qty,
                  force_personal |-> force_personal, before |-> before]
    /\ UNCHANGED <<procs, fnvars>>

NextCart == AddItemCall

SpecCart == InitCart /\ [][NextCart]_vars

UniqueBySku(items) ==
  \A i, j \in 1..Len(items) : items[i].sku = items[j].sku => i = j

\* C5: after any sequence of non-overlapping add_item_to_cart calls the lines
\* of every cart are unique by sku; a call with a sku already in the target
\* cart adds the quantity to that line and keeps the number of lines, a call
\* with a new sku appends exactly one line.
C5_AddMergesBySku ==
  /\ \A p \in Phones : UniqueBySku(carts[p])
  /\ \A c \in 1..Len(clusters) : UniqueBySku(clusters[c].items)
  /\ result.kind = "add_item" =>
       LET before == result.before
           after == get_cart(DB, result.phone, result.force_personal).items
           i == FirstSku(before, result.product.sku)
       IN IF i # 0
          THEN /\ Len(after) = Len(before)
               /\ after[i].qty = before[i].qty + result.qty
               /\ \A j \in 1..Len(before) : j # i => after[j] = before[j]
          ELSE after = Append(before, Line(result.product, result.qty))

C5_Witness ==
  /\ result.kind = "add_item"
  /\ ~result.force_personal
  /\ FirstSku(result.before, result.product.sku) = 2
  /\ Len(clusters[1].items) = 2
  /\ clusters[1].items[2].qty = 2

(***************************************************************************)
(* Specification SpecCluster: members create clusters through the          *)
(* conversation (cluster_create, awaiting_cluster_name,                    *)
(* awaiting_cluster_limit) and join them, by calls of join_cluster_by_id   *)
(* one after the other and by calls that overlap.                          *)
(***************************************************************************)
InitCluster ==
  /\ \E pay \in {"paid", "pending_review"} :
       members = [p \in Phones |->
         IF p = "p3" THEN Onboarded("PH", pay, "", NoCluster, "")
         ELSE Onboarded("PH", "paid", "addr", NoCluster, "")]
  /\ carts = [p \in Phones |-> <<>>]
  /\ clusters = <<>>
  /\ orders = <<>>
  /\ commissions = <<>>
  /\ links = {}
  /\ NoEffects
  /\ procs = [p \in Phones |-> NoJoin]
  /\ fn_in = <<>>
  /\ fn_out = <<>>

\* What a member writes while setting up a cluster.
ClusterMsgs ==
  {[BaseMsg EXCEPT !.intent = "cluster_create", !.cname = n] : n \in {"", "Family"}}
    \cup {[BaseMsg EXCEPT !.text = "Family", !.digits = d] :
            d \in (0..MaxLimit) \cup {NoDigits}}

ClusterCreators == {"p1"}

ClusterTurn ==
  \E phone \in ClusterCreators, msg \in ClusterMsgs :
    \E out \in {handle_inbound(DB, phone, msg)} :
    /\ procs[phone].pc = "idle"
    /\ Len(clusters) < MaxClusters
    /\ Commit(out.db)
    /\ result' = [kind |-> "turn"]
    /\ UNCHANGED <<procs, fnvars>>

\* What a call of join_cluster_by_id found: the cluster document and the
\* joiner's record before the call.
JoinBefore(db, phone, cluster_id) ==
  [found |-> HasCluster(db, cluster_id),
   cluster |-> IF HasCluster(db, cluster_id) THEN get_custom_cluster(db, cluster_id)
               ELSE NewCluster("", "", 0),
   member |-> get_member(db, phone)]

JoinCall ==
  \E phone \in Phones, cluster_id \in 1..MaxClusters, transport_ok \in BOOLEAN :
    LET out == join_cluster_by_id(DB, phone, cluster_id, transport_ok) IN
    /\ procs[phone].pc = "idle"
    /\ Commit(out.db)
    /\ result' = [kind |-> "join", phone |-> phone, cluster_id |-> cluster_id,
                  msg |-> out.msg, raised |-> out.raised,
                  before |-> JoinBefore(DB, phone, cluster_id)]
    /\ UNCHANGED <<procs, fnvars>>

JoinBegin ==
  \E phone \in Phones, cluster_id \in 1..Len(clusters) :
    /\ procs[phone].pc = "idle"
    /\ JoinRejection(DB, phone, cluster_id) = ""
    /\ procs' = [procs EXCEPT ![phone] = JoinRead(DB, phone, cluster_id)]
    /\ result' = [kind |-> "join_step"]
    /\ UNCHANGED <<store, sent, notes, fnvars>>

JoinSave ==
  \E phone \in Phones :
    /\ procs[phone].pc = "save"
    /\ Commit(JoinWrite(DB, phone, procs[phone]))
    /\ procs' = [procs EXCEPT ![phone].pc = "notify"]
    /\ result' = [kind |-> "join_step"]
    /\ UNCHANGED fnvars

JoinFinish ==
  \E phone \in Phones, transport_ok \in BOOLEAN :
    /\ procs[phone].pc \in {"notify", "finish"}
    /\ Commit(JoinDone(DB, phone, procs[phone], procs[phone].pc = "notify", transport_ok))
    /\ procs' = [procs EXCEPT ![phone] = NoJoin]
    /\ result' = [kind |-> "join_step"]
    /\ UNCHANGED fnvars

NextCluster == ClusterTurn \/ JoinCall \/ JoinBegin \/ JoinSave \/ JoinFinish

SpecCluster == InitCluster /\ [][NextCluster]_vars

\* The rejected call leaves the cluster and the joiner as they were and
\* sends nothing.
JoinLeftNoTrace ==
  /\ ~result.raised
  /\ clusters[result.cluster_id] = result.before.cluster
  /\ members[result.phone] = result.before.member
  /\ sent = <<>>

JoinOnFull ==
  /\ result.kind = "join"
  /\ result.before.found
  /\ Len(result.before.cluster.members) >= result.before.cluster.max_people

\* C6 (as stated): a join_cluster_by_id call on a cluster whose member count
\* is already >= max_people is rejected with the cluster-full message; the
\* cluster's members and the joiner's current_cluster_id are unchanged and
\* the owner is not notified.
C6_FullAlwaysSaysFull ==
  JoinOnFull => (result.msg = "cluster_full" /\ JoinLeftNoTrace)

\* C6 (amended): such a call is always rejected without a change of the
\* cluster or of the joiner and without a message to the owner; the reply is
\* the cluster-full message when the joiner has a paid subscription and the
\* subscription-required message otherwise.
C6_FullRejected ==
  JoinOnFull =>
    /\ JoinLeftNoTrace
    /\ result.msg = IF result.before.member.payment_status = "paid"
                    THEN "cluster_full" ELSE "need_subscription"

C6_Witness ==
  /\ JoinOnFull
  /\ result.msg = "cluster_full"
  /\ Len(result.before.cluster.members) = 2
  /\ result.phone \notin Range(clusters[result.cluster_id].members)

\* C7: in every reachable state every cluster has len(members) <= max_people,
\* for every limit a user can reply in awaiting_cluster_limit and under any
\* interleaving of overlapping joins.
C7_WithinLimit ==
  \A c \in 1..Len(clusters) : Len(clusters[c].members) <= clusters[c].max_people

UnpaidJoin ==
  /\ result.kind = "join"
  /\ result.before.found
  /\ result.before.member.payment_status # "paid"

\* C19: a join attempt by a member whose payment_status is not paid fails as
\* not eligible, and leaves the members list of the cluster and the
\* current_cluster_id of the member as they were, whether the cluster is
\* full or not.
C19_UnpaidCannotJoin ==
  UnpaidJoin =>
    /\ result.msg = "need_subscription"
    /\ ~result.raised
    /\ clusters[result.cluster_id].members = result.before.cluster.members
    /\ members[result.phone].current_cluster_id =
         result.before.member.current_cluster_id

C19_Witness ==
  /\ UnpaidJoin
  /\ Len(result.before.cluster.members) < result.before.cluster.max_people
  /\ result.phone \notin Range(clusters[result.cluster_id].members)

UnpaidJoinWhenFull ==
  /\ UnpaidJoin
  /\ Len(result.before.cluster.members) >= result.before.cluster.max_people

(***************************************************************************)
(* Specification SpecPay: the owner of a cluster and a personal shopper    *)
(* check out, members send payment proofs, and the gateway delivers (and   *)
(* delivers again) the charge.success events of the links it issued.  The  *)
(* handlers run one after the other.                                       *)
(***************************************************************************)
Rice == CHOOSE p \in Products : p.sku = "s1"

PayFamily ==
  [name |-> "Family", owner_phone |-> "p1", max_people |-> 3,
   members |-> <<"p1", "p2">>, items |-> <<Line(Rice, 1)>>, is_active |-> TRUE]

InitPay ==
  /\ members = [p \in Phones |->
       CASE p = "p1" -> Onboarded("Lagos Mainland", "paid", "addr", 1, "")
         [] p = "p2" -> Onboarded("Lagos Mainland", "paid", "addr", 1, "p1")
         [] OTHER -> Onboarded("Lagos Island", "paid", "addr", NoCluster, "p1")]
  /\ carts = [p \in Phones |-> IF p = "p3" THEN <<Line(Rice, 1)>> ELSE <<>>]
  /\ clusters = <<PayFamily>>
  /\ orders = <<>>
  /\ commissions = <<>>
  /\ links = {}
  /\ NoEffects
  /\ procs = <<>>
  /\ fn_in = <<>>
  /\ fn_out = <<>>

CheckoutMsgs ==
  {[BaseMsg EXCEPT !.intent = "cart_checkout", !.pay = pay, !.pay_fail = f] :
     pay \in {"ok", "none"}, f \in {{}, {"p2"}}}

ProofMsg == [BaseMsg EXCEPT !.intent = "payment_confirmation", !.media = TRUE]

AddRiceMsg == [BaseMsg EXCEPT !.intent = "cart_add", !.button = "s1"]

PayMsgs == CheckoutMsgs \cup {ProofMsg, AddRiceMsg}

\* What the last handler run found: the status of every order, and for a
\* cluster_order event the payment list and the paid amount of its order.
Statuses(os) == [i \in 1..Len(os) |-> os[i].status]

PaidBefore(db, ev) ==
  IF ev.type = "cluster_order" /\ FindSlug(db, ev.order_slug) # 0
  THEN [cluster_payments |-> db.orders[FindSlug(db, ev.order_slug)].cluster_payments,
        cluster_paid_amount_kobo |->
          db.orders[FindSlug(db, ev.order_slug)].cluster_paid_amount_kobo]
  ELSE [cluster_payments |-> <<>>, cluster_paid_amount_kobo |-> 0]

PayTurn ==
  \E phone \in Phones, msg \in PayMsgs :
    \E out \in {handle_inbound(DB, phone, msg)} :
    /\ msg \in CheckoutMsgs => Len(orders) < MaxOrders
    /\ msg = AddRiceMsg => get_cart(DB, phone, FALSE).items = <<>>
    /\ Commit(out.db)
    /\ result' = [kind |-> "turn", intent |-> msg.intent, replay |-> FALSE,
                  before |-> Statuses(orders)]
    /\ UNCHANGED <<procs, fnvars>>

PayWebhook ==
  \E ev \in links, transport_ok \in BOOLEAN :
    /\ Commit(paystack_webhook(DB, ev, transport_ok))
    /\ result' = [kind |-> "webhook", ev |-> ev,
                  replay |-> (result.kind = "webhook" /\ result.ev = ev),
                  before |-> Statuses(orders), paid |-> PaidBefore(DB, ev)]
    /\ UNCHANGED <<procs, fnvars>>

NextPay == PayTurn \/ PayWebhook

SpecPay == InitPay /\ [][NextPay]_vars

\* The entries of a payment list for one phone.
EntriesOf(payments, phone) == {i \in 1..Len(payments) : payments[i].phone = phone}

\* C2: a cluster_order charge.success event delivered again right after its
\* own delivery leaves exactly one entry for the payer in the order's
\* cluster_payments, with status PAID, and leaves cluster_paid_amount_kobo at
\* the value it had after the first delivery.
C2_ReplayIdempotent ==
  (result.kind = "webhook" /\ result.replay /\ result.ev.type = "cluster_order") =>
    LET idx == FindSlug(DB, result.ev.order_slug)
        payments == orders[idx].cluster_payments
    IN /\ idx # 0
       /\ Cardinality(EntriesOf(payments, result.ev.phone)) = 1
       /\ \A i \in EntriesOf(payments, result.ev.phone) : payments[i].status = "PAID"
       /\ orders[idx].cluster_paid_amount_kobo = result.paid.cluster_paid_amount_kobo
       /\ orders[idx].cluster_payments = result.paid.cluster_payments

C2_Witness ==
  /\ result.kind = "webhook" /\ result.replay /\ result.ev.type = "cluster_order"
  /\ result.ev.phone = "p2"
  /\ \E i \in 1..Len(orders) :
       /\ orders[i].slug = result.ev.order_slug
       /\ orders[i].cluster_paid_amount_kobo = result.ev.share_kobo
       /\ orders[i].status = "WAITING_PAYMENT"

\* Sum of amount_kobo over the entries with status PAID.
RECURSIVE SumOfPaid(_)
SumOfPaid(payments) ==
  IF payments = <<>> THEN 0
  ELSE (IF Head(payments).status = "PAID" THEN Head(payments).amount_kobo ELSE 0)
       + SumOfPaid(Tail(payments))

\* C3: in every reachable state, for every order, cluster_paid_amount_kobo is
\* the sum of amount_kobo over the cluster_payments entries with status PAID.
C3_PaidAmountIsSum ==
  \A i \in 1..Len(orders) :
    orders[i].cluster_paid_amount_kobo = SumOfPaid(orders[i].cluster_payments)

C3_Witness ==
  \E i \in 1..Len(orders) :
    /\ Len(orders[i].cluster_payments) = 2
    /\ orders[i].cluster_payments[1].status = "pending"
    /\ orders[i].cluster_payments[2].status = "PAID"
    /\ orders[i].cluster_paid_amount_kobo = orders[i].cluster_payments[2].amount_kobo
    /\ orders[i].cluster_paid_amount_kobo > 0

\* The confirmed payments cover the order: the paid amount reaches the total
\* or every expected member has a PAID entry.
Covered(order) ==
  \/ SumOfPaid(order.cluster_payments) >= order.total * KOBO_PER_NAIRA
  \/ /\ order.cluster_members # <<>>
     /\ \A m \in Range(order.cluster_members) :
          \E i \in EntriesOf(order.cluster_payments, m) :
            order.cluster_payments[i].status = "PAID"

BecamePaid(i) ==
  /\ orders[i].status = "PAID"
  /\ i \in 1..Len(result.before) => result.before[i] # "PAID"

\* C9: an order with cluster linkage becomes PAID only in a state where its
\* confirmed paid amount is at least its total or every expected member has
\* a PAID entry, whatever operation moved it (a payment-proof turn, an
\* order-type event, a cluster_order event of one member).
C9_PaidOnlyWhenCovered ==
  \A i \in 1..Len(orders) :
    (orders[i].cluster_id # NoCluster /\ BecamePaid(i)) => Covered(orders[i])

\* The commission records of one (referred_phone, order_slug) pair.
CommissionsFor(phone, order_slug) ==
  {i \in 1..Len(commissions) :
     commissions[i].referred_phone = phone /\ commissions[i].order_slug = order_slug}

OrderEventHandled ==
  /\ result.kind = "webhook"
  /\ result.ev.type = "order"
  /\ FindSlug(DB, result.ev.order_slug) # 0

\* C21: deliveries of one order-type charge.success event, one after the
\* other and as many as there are, create at most one commission record for
\* a (referred_phone, order_slug) pair and leave the order of that slug PAID:
\* no later handler run takes an order out of PAID.
C21_OrderReplay ==
  /\ \A i \in 1..Len(commissions) :
       Cardinality(CommissionsFor(commissions[i].referred_phone,
                                  commissions[i].order_slug)) = 1
  /\ OrderEventHandled => orders[FindSlug(DB, result.ev.order_slug)].status = "PAID"
  /\ result.kind \in {"turn", "webhook"} =>
       \A i \in 1..Len(result.before) :
         result.before[i] = "PAID" => orders[i].status = "PAID"

C21_Witness ==
  /\ OrderEventHandled
  /\ result.replay
  /\ result.before[FindSlug(DB, result.ev.order_slug)] = "PAID"
  /\ orders[FindSlug(DB, result.ev.order_slug)].member_phone = "p3"
  /\ Cardinality(CommissionsFor("p3", result.ev.order_slug)) = 1

(***************************************************************************)
(* Specification SpecCommission: a referred member places personal orders  *)
(* and the gateway delivers the charge.success events of their links to    *)
(* two request handlers whose steps interleave.                            *)
(***************************************************************************)
Workers == {"w1", "w2"}

InitCommission ==
  /\ members = [p \in Phones |->
       IF p = "p3" THEN Onboarded("PH", "paid", "addr", NoCluster, "p1")
       ELSE Onboarded("PH", "paid", "addr", NoCluster, "")]
  /\ carts = [p \in Phones |-> IF p = "p3" THEN <<Line(Rice, 1)>> ELSE <<>>]
  /\ clusters = <<>>
  /\ orders = <<>>
  /\ commissions = <<>>
  /\ links = {}
  /\ NoEffects
  /\ procs = [w \in Workers |-> NoDelivery]
  /\ fn_in = <<>>
  /\ fn_out = <<>>

ShopperMsgs == {AddRiceMsg, [BaseMsg EXCEPT !.intent = "cart_checkout"]}

ShopperTurn ==
  \E msg \in ShopperMsgs :
    \E out \in {handle_inbound(DB, "p3", msg)} :
    /\ msg.intent = "cart_checkout" => Len(orders) < MaxOrders
    /\ msg = AddRiceMsg => carts["p3"] = <<>>
    /\ Commit(out.db)
    /\ result' = [kind |-> "turn"]
    /\ UNCHANGED <<procs, fnvars>>

DeliverMark ==
  \E w \in Workers, ev \in links, transport_ok \in BOOLEAN :
    /\ procs[w].pc = "idle"
    /\ ev.type = "order"
    /\ Commit(DeliveryMark(DB, ev, transport_ok))
    /\ procs' = [procs EXCEPT ![w] = DeliveryAfterMark(DB, ev)]
    /\ result' = [kind |-> "delivery"]
    /\ UNCHANGED fnvars

DeliverFind ==
  \E w \in Workers :
    /\ procs[w].pc = "find"
    /\ procs' = [procs EXCEPT ![w] = DeliveryAfterFind(DB, procs[w])]
    /\ result' = [kind |-> "delivery"]
    /\ UNCHANGED <<store, sent, notes, fnvars>>

DeliverCount ==
  \E w \in Workers :
    /\ procs[w].pc = "count"
    /\ procs' = [procs EXCEPT ![w] = DeliveryAfterCount(DB, procs[w])]
    /\ result' = [kind |-> "delivery"]
    /\ UNCHANGED <<store, sent, notes, fnvars>>

DeliverExisting ==
  \E w \in Workers :
    /\ procs[w].pc = "existing"
    /\ procs' = [procs EXCEPT ![w] = DeliveryAfterExisting(DB, procs[w])]
    /\ result' = [kind |-> "delivery"]
    /\ UNCHANGED <<store, sent, notes, fnvars>>

DeliverInsert ==
  \E w \in Workers, transport_ok \in BOOLEAN :
    /\ procs[w].pc = "insert"
    /\ Commit(InsertCommission(DB, orders[procs[w].order_idx], transport_ok))
    /\ procs' = [procs EXCEPT ![w] = NoDelivery]
    /\ result' = [kind |-> "delivery"]
    /\ UNCHANGED fnvars

NextCommission ==
  \/ ShopperTurn \/ DeliverMark \/ DeliverFind \/ DeliverCount \/ DeliverExisting
  \/ DeliverInsert

SpecCommission == InitCommission /\ [][NextCommission]_vars

\* C4: in every reachable state the commissions collection holds at most one
\* record per referred_phone, also when the events of several orders of the
\* member, or deliveries of one event, are processed at the same time.
C4_OneCommissionPerReferred ==
  \A i, j \in 1..Len(commissions) :
    commissions[i].referred_phone = commissions[j].referred_phone => i = j

(***************************************************************************)
(* Specification SpecCheckout: members of two shared clusters browse the   *)
(* catalogue, answer the product prompt and check out, one turn after the  *)
(* other.  p1 owns Family, p3 owns Work, p2 is a member of both.           *)
(***************************************************************************)
Work ==
  [name |-> "Work", owner_phone |-> "p3", max_people |-> 3,
   members |-> <<"p3", "p2">>, items |-> <<Line(Rice, 1)>>, is_active |-> TRUE]

InitCheckout ==
  /\ members = [p \in Phones |->
       CASE p = "p1" -> Onboarded("PH", "paid", "addr", 1, "")
         [] p = "p2" -> Onboarded("PH", "paid", "addr", 1, "")
         [] OTHER -> Onboarded("PH", "paid", "", 2, "")]
  /\ carts = [p \in Phones |-> <<>>]
  /\ clusters = <<PayFamily, Work>>
  /\ orders = <<>>
  /\ commissions = <<>>
  /\ links = {}
  /\ NoEffects
  /\ procs = <<>>
  /\ fn_in = <<>>
  /\ fn_out = <<>>

\* "checkout", with or without a cluster name or a referral in the text.
SayCheckout ==
  {[BaseMsg EXCEPT !.intent = "cart_checkout", !.names = n] : n \in {{}, {"Family"}, {"Work"}}}
    \cup {[BaseMsg EXCEPT !.intent = "cart_checkout", !.referred = "p1"]}

\* A catalogue search that finds a product.
SaySearch ==
  {[BaseMsg EXCEPT !.intent = "catalog_search", !.results = <<Rice>>]}

\* Answers to the product prompt: check out, or add the product first.
SayCartAction ==
  {[BaseMsg EXCEPT !.intent_check = ic, !.intent = "cart_checkout"] :
     ic \in {"cart_checkout", "cart_add"}}

\* The owners only check out; the member of both clusters does everything.
CheckoutMsgSet(phone) ==
  IF phone = "p2"
  THEN SayCheckout \cup SaySearch \cup SayCartAction
  ELSE {[BaseMsg EXCEPT !.intent = "cart_checkout"]}

WithinBounds(db) ==
  /\ Len(db.orders) <= MaxOrders
  /\ \A c \in 1..Len(db.clusters) :
       \A i \in 1..Len(db.clusters[c].items) : db.clusters[c].items[i].qty <= MaxQty
  /\ \A p \in Phones : \A i \in 1..Len(db.carts[p]) : db.carts[p][i].qty <= MaxQty

\* What a turn changed: the collections that differ and the fields of the
\* member records that differ.
Changed(before, after) ==
  [orders |-> before.orders # after.orders,
   clusters |-> before.clusters # after.clusters,
   items |-> \E c \in 1..Len(before.clusters) :
               before.clusters[c].items # after.clusters[c].items,
   carts |-> before.carts # after.carts,
   links |-> before.links # after.links,
   members |-> {<<p, f>> \in Phones \X DOMAIN NoMember :
                  before.members[p][f] # after.members[p][f]}]

\* The turn is a checkout: the message is classified cart_checkout and the
\* member's state lets the turn reach the intent dispatch.
IsCheckout(db, phone, msg) ==
  LET m == db.members[phone]
  IN /\ msg.join_id = NoToken /\ msg.ai
     /\ IntentGuess(msg) = "cart_checkout"
     /\ m.exists
     /\ \/ m.state \in {"idle", "awaiting_address"}
        \/ /\ m.state = "awaiting_cart_action"
           /\ m.last_product # NoProduct
           /\ msg.intent_check
                \in {"cart_checkout", "cart_view", "order_help", "other", "catalog_search"}

CheckoutTurn ==
  \E phone \in Phones : \E msg \in CheckoutMsgSet(phone) :
    \E out \in {handle_inbound(DB, phone, msg)} :
    /\ WithinBounds(out.db)
    /\ Commit(out.db)
    /\ result' = [kind |-> "turn", phone |-> phone, ret |-> out.ret,
                  checkout |-> IsCheckout(DB, phone, msg),
                  changed |-> Changed(DB, out.db)]
    /\ UNCHANGED <<procs, fnvars>>

NextCheckout == CheckoutTurn

SpecCheckout == InitCheckout /\ [][NextCheckout]_vars

\* A checkout turn by a member whose active cart is the cart of a cluster
\* of another owner.
ByNonOwner ==
  /\ result.kind = "turn" /\ result.checkout
  /\ members[result.phone].current_cluster_id # NoCluster
  /\ HasCluster(DB, members[result.phone].current_cluster_id)
  /\ clusters[members[result.phone].current_cluster_id].owner_phone # result.phone

OrdersByOwners ==
  \A i \in 1..Len(orders) :
    (orders[i].cluster_id # NoCluster /\ HasCluster(DB, orders[i].cluster_id))
      => orders[i].member_phone = clusters[orders[i].cluster_id].owner_phone

\* The fields of a member record that say where the conversation stands.
ConversationFields ==
  {"state", "last_product", "recent_products", "current_cluster_id", "referred_by"}

\* C8 (as stated): a checkout by a member whose active cart is cluster-backed
\* and who is not the cluster's owner creates no order and leaves the
\* cluster's items and every member record unchanged; every order with a
\* cluster_id has member_phone equal to that cluster's owner_phone.
C8_NothingChanges ==
  /\ OrdersByOwners
  /\ ByNonOwner =>
       /\ ~result.changed.orders
       /\ ~result.changed.items
       /\ result.changed.members = {}

\* C8 (amended): such a checkout creates no order and leaves every cluster,
\* every cart, every other member's record and, of the acting member's own
\* record, every field but the conversation fields (state, last_product,
\* recent_products, current_cluster_id, referred_by) unchanged; every order
\* with a cluster_id has member_phone equal to that cluster's owner_phone.
C8_OnlyOwnerChecksOut ==
  /\ OrdersByOwners
  /\ ByNonOwner =>
       /\ ~result.changed.orders
       /\ ~result.changed.clusters
       /\ ~result.changed.carts
       /\ ~result.changed.links
       /\ result.ret.kind = "returned" /\ result.ret.intent = "checkout_restricted"
       /\ result.changed.members \subseteq {result.phone} \X ConversationFields

C8_Witness ==
  /\ ByNonOwner
  /\ result.phone = "p2"
  /\ <<"p2", "state">> \in result.changed.members
  /\ \E i \in 1..Len(orders) : orders[i].cluster_id = 1 /\ orders[i].member_phone = "p1"
(***************************************************************************)
(* Specification SpecTurn: the webhook hands inbound messages to           *)
(* handle_inbound, one turn after the other: a new number goes through     *)
(* the onboarding, an onboarded member shops and creates a cluster.  Each  *)
(* message carries what the intent gateway, the messaging transport and    *)
(* the payment gateway do during its turn.                                 *)
(***************************************************************************)
InitTurn ==
  /\ \E address \in {"", "addr"} :
       members = [p \in Phones |->
         IF p = "p2" THEN Onboarded("PH", "paid", address, NoCluster, "") ELSE NoMember]
  /\ carts = [p \in Phones |-> IF p = "p2" THEN <<Line(Rice, 1)>> ELSE <<>>]
  /\ clusters = <<>>
  /\ orders = <<>>
  /\ commissions = <<>>
  /\ links = {}
  /\ NoEffects
  /\ procs = <<>>
  /\ fn_in = <<>>
  /\ fn_out = <<>>

TurnActors == {"p1", "p2"}

\* What the gateway's extraction can yield in a state: ai.py extract_name,
\* extract_city, extract_lagos_area, extract_membership ("" for None).
Extracts(state) ==
  CASE state = "awaiting_name" -> {"", "Amaka"}
    [] state = "awaiting_city" -> {"", "Lagos", "PH"}
    [] state = "awaiting_lagos_area" -> {"", "Lagos Mainland"}
    [] state = "awaiting_membership" -> {"", "monthly"}
    [] OTHER -> {""}

TurnIntents ==
  {"other", "none", "menu_help", "payment_confirmation", "cluster_create", "cluster_view",
   "cart_checkout", "catalog_search"}

\* The gateway answers; transport and payment gateway work.
SayPlain(state) ==
  {[BaseMsg EXCEPT !.intent = i, !.extract = e, !.fallback = e, !.results = <<Rice>>,
                   !.digits = d] :
     i \in TurnIntents, e \in Extracts(state), d \in {NoDigits, MaxLimit}}

\* No gateway is configured: only the keyword fallbacks are left.
SayWithoutGateway(state) ==
  {[BaseMsg EXCEPT !.ai = FALSE, !.fallback = e] : e \in Extracts(state)}

\* The payment gateway answers without a link, or its call raises.
SayWithPaymentFailure(state) ==
  {[BaseMsg EXCEPT !.intent = "cart_checkout", !.extract = e, !.fallback = e, !.pay = p] :
     e \in Extracts(state), p \in {"none", "raise"}}

\* The messaging transport raises.
SayWithTransportFailure ==
  {[BaseMsg EXCEPT !.intent = i, !.results = <<Rice>>, !.transport_ok = FALSE] :
     i \in {"menu_help", "catalog_search"}}

TurnMsgs(state) ==
  SayPlain(state) \cup SayWithoutGateway(state) \cup SayWithPaymentFailure(state)
    \cup SayWithTransportFailure

Turn ==
  \E phone \in TurnActors :
    \E msg \in TurnMsgs(get_member(DB, phone).state) :
      \E out \in {handle_inbound(DB, phone, msg)} :
        /\ WithinBounds(out.db)
        /\ Len(out.db.clusters) <= MaxClusters
        /\ Commit(out.db)
        /\ result' = [kind |-> "turn", phone |-> phone, ret |-> out.ret]
        /\ UNCHANGED <<procs, fnvars>>

NextTurn == Turn

SpecTurn == InitTurn /\ [][NextTurn]_vars

\* C10: handle_inbound is total: for every member state, every inbound text
\* and every failure mode of the intent gateway, the messaging transport and
\* the payment gateway, the call returns the six values the webhook caller
\* unpacks, with next state one of the eleven conversation states, and
\* never raises to the caller.
C10_HandleInboundTotal ==
  result.kind = "turn" =>
    /\ CallerAccepts(result.ret)
    /\ result.ret.next_state \in States

(***************************************************************************)
(* Specification SpecOnboard: a new number p1 writes its first messages    *)
(* and answers the onboarding questions, while p2, an onboarded member     *)
(* with a cluster and a cart, checks out.                                  *)
(***************************************************************************)
InitOnboard ==
  /\ members = [p \in Phones |->
       IF p = "p2" THEN Onboarded("PH", "paid", "addr", 1, "") ELSE NoMember]
  /\ carts = [p \in Phones |-> IF p = "p2" THEN <<Line(Rice, 1)>> ELSE <<>>]
  /\ clusters = <<[PayFamily EXCEPT !.owner_phone = "p2", !.members = <<"p2">>]>>
  /\ orders = <<>>
  /\ commissions = <<>>
  /\ links = {}
  /\ NoEffects
  /\ procs = <<>>
  /\ fn_in = <<>>
  /\ fn_out = <<>>

\* The text carries the JOIN_CLUSTER_<id> token of an invite link.
SayJoin ==
  {[BaseMsg EXCEPT !.join_id = c, !.text = "join"] : c \in 1..MaxClusters}

\* A reply to an onboarding question: a text (empty for a message that is
\* only a picture), what the gateway extracts from it, what the keyword
\* fallback finds in it (nothing in an empty text), gateway configured or
\* not, payment gateway working or not.
SayAnswer(state) ==
  {m \in {[BaseMsg EXCEPT !.text = t, !.ai = a, !.extract = e, !.fallback = f, !.pay = p] :
            t \in {"", "amaka"}, a \in BOOLEAN, e \in Extracts(state),
            f \in Extracts(state), p \in {"ok", "none", "raise"}} :
     /\ m.text = "" => m.fallback = ""
     /\ state # "awaiting_membership" => m.pay = "ok"}

OnboardMsgs(phone, state) ==
  IF phone = "p2" THEN {[BaseMsg EXCEPT !.intent = "cart_checkout"]}
  ELSE SayAnswer(state) \cup SayJoin

OnboardTurn ==
  \E phone \in {"p1", "p2"} :
    \E msg \in OnboardMsgs(phone, get_member(DB, phone).state) :
      \E out \in {handle_inbound(DB, phone, msg)} :
        /\ WithinBounds(out.db)
        /\ Commit(out.db)
        /\ result' = [kind |-> "turn", phone |-> phone, ret |-> out.ret,
                      new |-> ~get_member(DB, phone).exists,
                      state_before |-> get_member(DB, phone).state,
                      changed |-> Changed(DB, out.db)]
        /\ UNCHANGED <<procs, fnvars>>

NextOnboard == OnboardTurn

SpecOnboard == InitOnboard /\ [][NextOnboard]_vars

OnboardingSteps ==
  {<<"", "awaiting_name">>, <<"awaiting_name", "awaiting_city">>,
   <<"awaiting_city", "awaiting_lagos_area">>, <<"awaiting_city", "awaiting_membership">>,
   <<"awaiting_lagos_area", "awaiting_membership">>, <<"awaiting_membership", "idle">>}

OnboardingStates ==
  {"awaiting_name", "awaiting_city", "awaiting_lagos_area", "awaiting_membership"}

\* Every turn of a member who is being onboarded stays in its state or takes
\* one of the steps.
OnboardingInOrder ==
  (result.kind = "turn" /\ result.state_before \in OnboardingStates \cup {""}) =>
    \/ members[result.phone].state = result.state_before
    \/ <<result.state_before, members[result.phone].state>> \in OnboardingSteps

NameSetAfterNameStep ==
  \A p \in Phones :
    (members[p].exists /\ members[p].state # "awaiting_name") => members[p].name # ""

CitySetAtMembership ==
  \A p \in Phones :
    (members[p].exists /\ members[p].state = "awaiting_membership") =>
      members[p].city \in Cities \ {""}

\* C12: onboarding advances only in the order awaiting_name, awaiting_city,
\* (awaiting_lagos_area only for the ambiguous Lagos), awaiting_membership,
\* idle, and each slot is persisted before the step that follows it: in
\* state awaiting_city or later the name is set, in state
\* awaiting_membership the city is set.
C12_OnboardingOrder ==
  /\ OnboardingInOrder
  /\ NameSetAfterNameStep
  /\ CitySetAtMembership

(***************************************************************************)
(* Specification SpecDeepLink: p1 owns the cluster Family; p2 (paid) and   *)
(* p3 (not paid) browse the catalogue and send the invite link of the      *)
(* cluster, idle or while the product prompt is open.  Each message        *)
(* carries the answers the intent classifier would give to it.             *)
(***************************************************************************)
InitDeepLink ==
  /\ members = [p \in Phones |->
       CASE p = "p1" -> Onboarded("PH", "paid", "addr", 1, "")
         [] p = "p2" -> Onboarded("PH", "paid", "addr", NoCluster, "")
         [] OTHER -> Onboarded("PH", "pending_review", "addr", NoCluster, "")]
  /\ carts = [p \in Phones |-> <<>>]
  /\ clusters = <<[PayFamily EXCEPT !.members = <<"p1">>, !.items = <<>>]>>
  /\ orders = <<>>
  /\ commissions = <<>>
  /\ links = {}
  /\ NoEffects
  /\ procs = <<>>
  /\ fn_in = <<>>
  /\ fn_out = <<>>

\* What the classifier can answer to a text: to the product prompt
\* (intent_check) and in the idle dispatch (intent); no gateway at all.
ClassifierAnswers(msg) ==
  {[msg EXCEPT !.intent_check = ic, !.intent = i, !.ai = a] :
     ic \in {"cart_add", "cart_checkout", "other", "none"},
     i \in {"other", "cart_add"}, a \in BOOLEAN}

\* The invite link of the cluster, with every answer of the classifier.
SayJoinLink ==
  UNION {ClassifierAnswers([BaseMsg EXCEPT !.join_id = 1, !.text = "join",
                                           !.results = <<Rice>>, !.transport_ok = t]) :
           t \in BOOLEAN}

DeepLinkMsgs == SaySearch \cup SayJoinLink

\* The join routine called on the store as the turn found it.
JoinOutcome(db, phone, msg) ==
  LET j == join_cluster_by_id(db, phone, msg.join_id, msg.transport_ok)
  IN IF j.raised THEN Raised(j.db, "send_outbound")
     ELSE Returned(j.db, 6, j.msg, "idle", "cluster_join_response")

DeepLinkTurn ==
  \E phone \in {"p2", "p3"}, msg \in DeepLinkMsgs :
    \E out \in {handle_inbound(DB, phone, msg)} :
      /\ WithinBounds(out.db)
      /\ Commit(out.db)
      /\ result' = [kind |-> "turn", phone |-> phone, ret |-> out.ret,
                    token |-> msg.join_id # NoToken,
                    state_before |-> get_member(DB, phone).state,
                    joined |-> msg.join_id # NoToken /\ out = JoinOutcome(DB, phone, msg),
                    same |-> msg.join_id # NoToken
                               /\ \A m \in ClassifierAnswers(msg) :
                                    handle_inbound(DB, phone, m) = out,
                    changed |-> Changed(DB, out.db)]
      /\ UNCHANGED <<procs, fnvars>>

NextDeepLink == DeepLinkTurn

SpecDeepLink == InitDeepLink /\ [][NextDeepLink]_vars

\* C13: for an existing member in idle or awaiting_cart_action, a message
\* with the JOIN_CLUSTER_<id> token is handled by the join routine in that
\* turn: no cart is mutated and the outcome is the same for every answer of
\* the classifier.
C13_DeepLinkBypassesClassifier ==
  (result.kind = "turn" /\ result.token
     /\ result.state_before \in {"idle", "awaiting_cart_action"}) =>
    /\ result.joined
    /\ result.same
    /\ ~result.changed.carts /\ ~result.changed.items

\* The same for the idle state alone.
DeepLinkWhenIdle ==
  (result.kind = "turn" /\ result.token /\ result.state_before = "idle") =>
    /\ result.joined
    /\ result.same
    /\ ~result.changed.carts /\ ~result.changed.items

(***************************************************************************)
(* Specification SpecClassify: two onboarded members write while the       *)
(* intent classifier answers a token, answers nothing, runs into the 5 s   *)
(* timeout, or its provider call fails with an error.                      *)
(***************************************************************************)
InitClassify ==
  /\ members = [p \in Phones |->
       IF p = "p1" THEN NoMember ELSE Onboarded("PH", "paid", "addr", NoCluster, "")]
  /\ carts = [p \in Phones |-> IF p = "p2" THEN <<Line(Rice, 1)>> ELSE <<>>]
  /\ clusters = <<>>
  /\ orders = <<>>
  /\ commissions = <<>>
  /\ links = {}
  /\ NoEffects
  /\ procs = <<>>
  /\ fn_in = <<>>
  /\ fn_out = <<>>

\* What happens to the classification of a text.
ClassifierOutcomes ==
  {"none", "timeout", "error", "other", "cart_checkout", "catalog_search"}

ClassifyMsgs ==
  {[BaseMsg EXCEPT !.intent = i, !.results = r, !.intent_check = "cart_add"] :
     i \in ClassifierOutcomes, r \in {<<>>, <<Rice>>}}

ClassifyTurn ==
  \E phone \in {"p2", "p3"}, msg \in ClassifyMsgs :
    \E out \in {handle_inbound(DB, phone, msg)} :
      /\ WithinBounds(out.db)
      /\ Commit(out.db)
      /\ result' = [kind |-> "turn", phone |-> phone, ret |-> out.ret,
                    outcome |-> msg.intent,
                    state_before |-> get_member(DB, phone).state,
                    as_search |-> out = handle_inbound(DB, phone,
                                          [msg EXCEPT !.intent = "catalog_search"]),
                    changed |-> Changed(DB, out.db)]
      /\ UNCHANGED <<procs, fnvars>>

NextClassify == ClassifyTurn

SpecClassify == InitClassify /\ [][NextClassify]_vars

\* In idle dispatch a classification that times out or yields no token is
\* handled as catalog_search.
TimeoutIsSearch ==
  (result.kind = "turn" /\ result.state_before = "idle"
     /\ result.outcome \in {"none", "timeout"}) => result.as_search

\* C14: in idle dispatch, a classification that times out or yields no token
\* is handled as catalog_search; a classification that fails with an error
\* is answered with the try-again message and leaves the member's persisted
\* state, the carts, the clusters and the orders unchanged.
C14_ClassifierFailure ==
  /\ TimeoutIsSearch
  /\ (result.kind = "turn" /\ result.state_before = "idle" /\ result.outcome = "error") =>
       /\ result.ret.kind = "returned" /\ result.ret.intent = "ai_error"
       /\ <<result.phone, "state">> \notin result.changed.members
       /\ ~result.changed.carts /\ ~result.changed.clusters /\ ~result.changed.orders

(***************************************************************************)
(* Specification SpecPayRace: the owner checks the cluster cart out, then  *)
(* two requests of the payment gateway deliver cluster_order events and    *)
(* overlap.  A delivery is the find_one of the order (paystack.py 156)     *)
(* and, after it, the $set of the list it changed in memory (204) with all *)
(* that follows.                                                           *)
(***************************************************************************)
PayWorkers == {"w1", "w2"}

NoPayJob == [pc |-> "idle", ev |-> PayLink("", "", NoSlug, 0, 0, "", ""), order_idx |-> 0,
             payments |-> <<>>]

InitPayRace ==
  /\ members = [p \in Phones |->
       CASE p = "p1" -> Onboarded("PH", "paid", "addr", 1, "")
         [] p = "p2" -> Onboarded("PH", "paid", "addr", 1, "")
         [] OTHER -> Onboarded("PH", "paid", "addr", 1, "")]
  /\ carts = [p \in Phones |-> <<>>]
  /\ clusters = <<[PayFamily EXCEPT !.members = <<"p1", "p2", "p3">>]>>
  /\ orders = <<>>
  /\ commissions = <<>>
  /\ links = {}
  /\ NoEffects
  /\ procs = [w \in PayWorkers |-> NoPayJob]
  /\ fn_in = <<>>
  /\ fn_out = <<>>

RaceCheckout ==
  \E out \in {handle_inbound(DB, "p1", [BaseMsg EXCEPT !.intent = "cart_checkout"])} :
    /\ orders = <<>>
    /\ Commit(out.db)
    /\ result' = [kind |-> "race", finished |-> {}]
    /\ UNCHANGED <<procs, fnvars>>

\* 156: the handler reads the order.
PayRead ==
  \E w \in PayWorkers, ev \in links :
    /\ procs[w].pc = "idle"
    /\ ev.type = "cluster_order"
    /\ FindSlug(DB, ev.order_slug) # 0
    /\ \A v \in PayWorkers : procs[v].pc = "write" => procs[v].ev # ev
    /\ ev.phone \notin result.finished
    /\ procs' = [procs EXCEPT ![w] =
                   [pc |-> "write", ev |-> ev, order_idx |-> FindSlug(DB, ev.order_slug),
                    payments |-> orders[FindSlug(DB, ev.order_slug)].cluster_payments]]
    /\ UNCHANGED <<store, sent, notes, result, fnvars>>

\* 160-276: the handler changes the list it read and writes it back.
PayWrite ==
  \E w \in PayWorkers, transport_ok \in BOOLEAN :
    /\ procs[w].pc = "write"
    /\ Commit(ClusterOrderApply(DB,
                [orders[procs[w].order_idx] EXCEPT !.cluster_payments = procs[w].payments],
                procs[w].ev, transport_ok))
    /\ procs' = [procs EXCEPT ![w] = NoPayJob]
    /\ result' = [result EXCEPT !.finished = @ \cup {procs[w].ev.phone}]
    /\ UNCHANGED fnvars

NextPayRace == RaceCheckout \/ PayRead \/ PayWrite

SpecPayRace == InitPayRace /\ [][NextPayRace]_vars

\* The share the payment link of a phone was issued for.
ShareOf(phone) ==
  LET ev == CHOOSE l \in links : l.type = "cluster_order" /\ l.phone = phone
  IN ev.share_kobo

RECURSIVE SumShares(_)
SumShares(S) ==
  IF S = {} THEN 0
  ELSE LET x == CHOOSE y \in S : TRUE IN ShareOf(x) + SumShares(S \ {x})

\* C15: when cluster_order webhooks for two different members of the same
\* order are processed concurrently, then once both handlers have finished
\* cluster_payments holds a PAID entry for each of the two phones and
\* cluster_paid_amount_kobo is the sum of the amounts paid.
C15_BothPaymentsRecorded ==
  (result.kind = "race" /\ Cardinality(result.finished) >= 2
     /\ \A w \in PayWorkers : procs[w].pc = "idle") =>
    /\ \A ph \in result.finished :
         \E i \in 1..Len(orders[1].cluster_payments) :
           /\ orders[1].cluster_payments[i].phone = ph
           /\ orders[1].cluster_payments[i].status = "PAID"
    /\ orders[1].cluster_paid_amount_kobo = SumShares(result.finished)

(***************************************************************************)
(* Specification SpecCartRace: two members of one cluster edit the shared  *)
(* cart in turns that overlap, and a third member may join meanwhile.  An  *)
(* edit is get_cart (789, 811: the items of the cluster as stored then),   *)
(* the get_custom_cluster of save_cart (455: the cluster document as       *)
(* stored then) and the $set of that document with the edited items (457,  *)
(* 409).                                                                   *)
(***************************************************************************)
CartWorkers == [w1 |-> "p1", w2 |-> "p2"]

CartEdits ==
  {[op |-> "add", product |-> CHOOSE p \in Products : p.name = "oil", item |-> ""],
   [op |-> "add", product |-> Rice, item |-> ""],
   [op |-> "remove", product |-> NoProduct, item |-> "rice"]}

NoCartJob == [pc |-> "idle", edit |-> CHOOSE e \in CartEdits : e.op = "remove",
              items |-> <<>>, cluster |-> PayFamily]

InitCartRace ==
  /\ members = [p \in Phones |->
       IF p = "p3" THEN Onboarded("PH", "paid", "addr", NoCluster, "")
       ELSE Onboarded("PH", "paid", "addr", 1, "")]
  /\ carts = [p \in Phones |-> <<>>]
  /\ clusters = <<PayFamily>>
  /\ orders = <<>>
  /\ commissions = <<>>
  /\ links = {}
  /\ NoEffects
  /\ procs = [w \in DOMAIN CartWorkers |-> NoCartJob]
  /\ fn_in = <<>>
  /\ fn_out = <<>>

\* The items add_item_to_cart or remove_item_from_cart computes from the
\* items get_cart returned.
EditedItems(phone, edit, items) ==
  LET db == [DB EXCEPT !.clusters[1].items = items]
      out == IF edit.op = "add"
             THEN add_item_to_cart(db, phone, edit.product, 1, FALSE)
             ELSE remove_item_from_cart(db, phone, edit.item, FALSE)
  IN out.clusters[1].items

\* 789, 811: get_cart; remove_item_from_cart saves nothing when no line
\* matched (833).
CartEditRead ==
  \E w \in DOMAIN CartWorkers, edit \in CartEdits :
    LET cart == get_cart(DB, CartWorkers[w], FALSE)
        new_items == EditedItems(CartWorkers[w], edit, cart.items)
        saves == edit.op = "add" \/ new_items # cart.items
    IN /\ procs[w].pc = "idle"
       /\ procs' = [procs EXCEPT ![w] =
                      [pc |-> IF saves THEN "got_cart" ELSE "done", edit |-> edit,
                       items |-> new_items, cluster |-> PayFamily]]
       /\ UNCHANGED <<store, sent, notes, result, fnvars>>

\* 455: save_cart reads the cluster document.
CartEditLoad ==
  \E w \in DOMAIN CartWorkers :
    /\ procs[w].pc = "got_cart"
    /\ procs' = [procs EXCEPT ![w].pc = "got_cluster",
                              ![w].cluster = get_custom_cluster(DB, 1)]
    /\ UNCHANGED <<store, sent, notes, result, fnvars>>

\* 457-458, 409: the document read at 455, with the edited items, is $set.
CartEditSave ==
  \E w \in DOMAIN CartWorkers :
    /\ procs[w].pc = "got_cluster"
    /\ Commit(save_custom_cluster(DB, 1,
                [procs[w].cluster EXCEPT !.items = procs[w].items]))
    /\ procs' = [procs EXCEPT ![w].pc = "done"]
    /\ UNCHANGED <<result, fnvars>>

\* 1130-1163: another member joins the cluster.
RaceJoin ==
  \E transport_ok \in BOOLEAN :
    \E out \in {join_cluster_by_id(DB, "p3", 1, transport_ok)} :
      /\ result.kind # "joins"
      /\ Commit(out.db)
      /\ result' = [kind |-> "joins",
                    joined |-> "p3" \in Range(out.db.clusters[1].members)]
      /\ UNCHANGED <<procs, fnvars>>

NextCartRace == CartEditRead \/ CartEditLoad \/ CartEditSave \/ RaceJoin

SpecCartRace == InitCartRace /\ [][NextCartRace]_vars

BothEditsDone == \A w \in DOMAIN CartWorkers : procs[w].pc = "done"

\* The items after the two edits, one applied to the outcome of the other.
OneAfterTheOther(first, second) ==
  EditedItems(CartWorkers[second], procs[second].edit,
    EditedItems(CartWorkers[first], procs[first].edit, PayFamily.items))

ItemsReflectBothEdits ==
  BothEditsDone =>
    clusters[1].items \in {OneAfterTheOther("w1", "w2"), OneAfterTheOther("w2", "w1")}

MembersNotReverted ==
  (BothEditsDone /\ result.kind = "joins" /\ result.joined) =>
    "p3" \in Range(clusters[1].members)

\* C16: when two members of one cluster edit the shared cart in turns that
\* overlap, then after both turns finished the items of the cluster reflect
\* both edits (each was applied to the latest stored version) and the
\* members and the name of the cluster are not set back to an earlier value.
C16_ConcurrentCartEdits ==
  /\ ItemsReflectBothEdits
  /\ MembersNotReverted
  /\ BothEditsDone => clusters[1].name = PayFamily.name

(***************************************************************************)
(* Specification SpecOrderRace: two members check their personal carts out *)
(* in calls of create_order_from_cart that may overlap.  A call is the     *)
(* reads up to count_documents (572-616), insert_one of the order built    *)
(* from them (636) and the notification and the clearing of the cart       *)
(* (642-661).                                                              *)
(***************************************************************************)
OrderWorkers == [w1 |-> "p1", w2 |-> "p2"]

NoOrderJob == [pc |-> "idle", order |-> OrderDoc("", <<>>, 0, "", NoSlug, NoCluster, "", "", <<>>),
               count |-> 0, read_len |-> 0]

RaceCarts ==
  {<<Line(Rice, 1)>>, <<Line(Rice, 2)>>,
   <<Line(Rice, 1), Line(CHOOSE p \in Products : p.name = "oil", 1)>>}

InitOrderRace ==
  /\ \E city \in {"PH", "Abuja"} :
       members = [p \in Phones |->
         IF p = "p2" THEN Onboarded(city, "paid", "addr", NoCluster, "")
         ELSE Onboarded("PH", "paid", "addr", NoCluster, "")]
  /\ \E c1 \in RaceCarts, c2 \in RaceCarts :
       carts = [p \in Phones |-> CASE p = "p1" -> c1 [] p = "p2" -> c2 [] OTHER -> <<>>]
  /\ clusters = <<>>
  /\ orders = <<>>
  /\ commissions = <<>>
  /\ links = {}
  /\ sent = <<>>
  /\ notes = <<>>
  /\ result = [kind |-> "orders", counts |-> <<>>, read_len |-> <<>>]
  /\ procs = [w \in DOMAIN OrderWorkers |-> NoOrderJob]
  /\ fn_in = <<>>
  /\ fn_out = <<>>

slug_taken_at_insert(db, order) ==
  [db EXCEPT !.orders = Append(@, [order EXCEPT !.slug = NewSlug(db, order.city)])]

\* 636: insert_one of the order document built before it.
insert_order(db, order) == [db EXCEPT !.orders = Append(@, order)]

\* 572-634: the order is built from the member, the cart and the count of
\* the orders of the city, all read at this point; a call with an empty
\* cart returns here (593).
OrderCount ==
  \E w \in DOMAIN OrderWorkers :
    \E out \in {create_order_from_cart(DB, OrderWorkers[w])} :
      /\ procs[w].pc = "idle"
      /\ Len(orders) + Cardinality({v \in DOMAIN OrderWorkers : procs[v].pc = "counted"})
           < MaxOrders
      /\ procs' = [procs EXCEPT ![w] =
           IF out.slug \in {NoSlug, Restricted} THEN [NoOrderJob EXCEPT !.pc = "done"]
           ELSE [pc |-> "counted", order |-> out.db.orders[Len(out.db.orders)],
                 count |-> CountCity(DB, members[OrderWorkers[w]].city) + 1,
                 read_len |-> Len(orders)]]
      /\ UNCHANGED <<store, sent, notes, result, fnvars>>

OrderInsert ==
  \E w \in DOMAIN OrderWorkers :
    /\ procs[w].pc = "counted"
    /\ Commit(insert_order(DB, procs[w].order))
    /\ procs' = [procs EXCEPT ![w].pc = "inserted"]
    /\ result' = [result EXCEPT !.counts = Append(@, procs[w].count),
                                !.read_len = Append(@, procs[w].read_len)]
    /\ UNCHANGED fnvars

\* 642-661: the notification, then the personal cart is saved empty.
OrderFinish ==
  \E w \in DOMAIN OrderWorkers :
    /\ procs[w].pc = "inserted"
    /\ Commit(save_cart(add_notification(DB, "order"),
                        [phone |-> OrderWorkers[w], cluster_id |-> NoCluster,
                         cluster_name |-> "", items |-> <<>>], FALSE))
    /\ procs' = [procs EXCEPT ![w].pc = "done"]
    /\ UNCHANGED <<result, fnvars>>

\* The member fills the cart again for another checkout.
OrderAgain ==
  \E w \in DOMAIN OrderWorkers :
    /\ procs[w].pc = "done"
    /\ Len(orders) < MaxOrders
    /\ Commit(add_item_to_cart(DB, OrderWorkers[w], Rice, 1, FALSE))
    /\ procs' = [procs EXCEPT ![w] = NoOrderJob]
    /\ UNCHANGED <<result, fnvars>>

NextOrderRace == OrderCount \/ OrderInsert \/ OrderFinish \/ OrderAgain

SpecOrderRace == InitOrderRace /\ [][NextOrderRace]_vars

\* The call that stored order j read the count before order i was stored.
CountedBeforeInsert(i, j) == result.read_len[j] < i

\* C17: there is an interleaving of two create_order_from_cart calls by
\* members of one city in which both read the same order count before either
\* inserts, and then two distinct orders are stored with one slug.  As an
\* invariant: two stored orders of one city whose calls read the same count
\* carry the same slug, and two stored orders of one city carry the same
\* slug only when the later call counted before the earlier one inserted.
C17_SameCountSameSlug ==
  \A i \in 1..Len(orders), j \in 1..Len(orders) :
    (i < j /\ orders[i].city = orders[j].city) =>
      /\ result.counts[i] = result.counts[j] => orders[i].slug = orders[j].slug
      /\ orders[i].slug = orders[j].slug => CountedBeforeInsert(i, j)

C17_Witness ==
  /\ Len(orders) = 2
  /\ orders[1].member_phone # orders[2].member_phone
  /\ orders[1].city = orders[2].city
  /\ result.counts[1] = result.counts[2]
  /\ CountedBeforeInsert(1, 2)
  /\ orders[1].slug = orders[2].slug
  /\ \A w \in DOMAIN OrderWorkers : procs[w].pc = "done"

(***************************************************************************)
(* Specification SpecSigned: requests arrive at the payment webhook with   *)
(* or without a signature header.  The gateway signs the events of the     *)
(* links it issued with the shared secret; anyone else can send any body   *)
(* with no header, with a signature made under another key or with the     *)
(* signature of another body.                                              *)
(***************************************************************************)
paystack_secret_key == "sk"

\* hmac.new(key, body, sha512).hexdigest(): equal digests only for equal key
\* and equal body.
hmac_sha512(key, body) == <<key, body>>

\* Header(None): the request carried no x-paystack-signature.
NoSignature == <<>>

webhook_without_signature_check(db, req, transport_ok) ==
  [db |-> paystack_webhook(db, req.body, transport_ok), status |-> "200"]

\* 22-283: HTTPException(400) leaves the handler before the body is parsed.
webhook_request(db, req, transport_ok) ==
  IF req.signature = NoSignature
  THEN [db |-> db, status |-> "400 Missing Paystack signature"]
  ELSE IF hmac_sha512(paystack_secret_key, req.body) # req.signature
  THEN [db |-> db, status |-> "400 Invalid signature"]
  ELSE [db |-> paystack_webhook(db, req.body, transport_ok), status |-> "200"]

\* Bodies nobody was issued a link for.
ForgedBodies ==
  {PayLink("membership", "p3", NoSlug, 0, 0, "yearly", "")}
    \cup {[ev EXCEPT !.share_kobo = ev.total_kobo] : ev \in links}

SignedRequests ==
  {[signature |-> hmac_sha512(paystack_secret_key, ev), body |-> ev] : ev \in links}
    \cup {[signature |-> NoSignature, body |-> b] : b \in links \cup ForgedBodies}
    \cup {[signature |-> hmac_sha512("guess", b), body |-> b] : b \in links \cup ForgedBodies}
    \cup {[signature |-> hmac_sha512(paystack_secret_key, ev), body |-> b] :
            ev \in links, b \in ForgedBodies}

WebhookRequest ==
  \E req \in SignedRequests, transport_ok \in BOOLEAN :
    \E out \in {webhook_request(DB, req, transport_ok)} :
      /\ Commit(out.db)
      /\ result' = [kind |-> "request", req |-> req, status |-> out.status,
                    changed |-> Changed(DB, out.db),
                    commissions |-> out.db.commissions # commissions]
      /\ UNCHANGED <<procs, fnvars>>

NextSigned == RaceCheckout \/ WebhookRequest

SpecSigned == InitPayRace /\ [][NextSigned]_vars

BadSignature ==
  /\ result.kind = "request"
  /\ \/ result.req.signature = NoSignature
     \/ result.req.signature # hmac_sha512(paystack_secret_key, result.req.body)

\* C20: a payment webhook request whose signature header is missing or is
\* not the HMAC-SHA512 of the raw body under the shared secret is rejected
\* with an error response and changes no member, order, commission or
\* notification record.
C20_BadSignatureRejected ==
  BadSignature =>
    /\ result.status \in {"400 Missing Paystack signature", "400 Invalid signature"}
    /\ result.changed.members = {}
    /\ ~result.changed.orders
    /\ ~result.commissions
    /\ notes = <<>> /\ sent = <<>>

C20_Witness ==
  /\ BadSignature
  /\ result.req.body \in links
  /\ result.req.signature = hmac_sha512("guess", result.req.body)
  /\ result.status = "400 Invalid signature"
  /\ \E i \in 1..Len(orders[1].cluster_payments) :
       /\ orders[1].cluster_payments[i].phone = result.req.body.phone
       /\ orders[1].cluster_payments[i].status # "PAID"

(***************************************************************************)
(* Specification SpecAward: award_referral_commission is called for the    *)
(* orders of a member p3, whose referred_by is empty, a name, or the phone *)
(* p1; p1 has no record, or a record with one of several payment          *)
(* statuses.  The calls run one after the other.                           *)
(***************************************************************************)
AwardOrder(n, status) ==
  [OrderDoc("p3", <<[sku |-> "rice", qty |-> 1]>>, 5500, "PH", <<"PH", n>>, NoCluster,
            "", "", <<>>) EXCEPT !.status = status]

AwardOrderLists ==
  {<<AwardOrder(1, s)>> : s \in {"WAITING_PAYMENT", "PAID"}}
    \cup {<<AwardOrder(1, s), AwardOrder(2, t)>> :
            s \in {"WAITING_PAYMENT", "PAID"}, t \in {"WAITING_PAYMENT", "PAID"}}

InitAward ==
  /\ \E ref \in {"", "Tunde", "p1"}, referrer_pay \in {"none", "", "pending_review", "paid"} :
       members = [p \in Phones |->
         CASE p = "p3" -> Onboarded("PH", "paid", "addr", NoCluster, ref)
           [] p = "p1" -> IF referrer_pay = "none" THEN NoMember
                          ELSE Onboarded("PH", referrer_pay, "addr", NoCluster, "")
           [] OTHER -> NoMember]
  /\ carts = [p \in Phones |-> <<>>]
  /\ clusters = <<>>
  /\ orders \in AwardOrderLists
  /\ commissions = <<>>
  /\ links = {}
  /\ sent = <<>>
  /\ notes = <<>>
  /\ result = [kind |-> "award", called |-> FALSE]
  /\ procs = <<>>
  /\ fn_in = <<>>
  /\ fn_out = <<>>

AwardCall ==
  \E idx \in 1..Len(orders), transport_ok \in BOOLEAN :
    \E after \in {award_referral_commission(DB, orders[idx], transport_ok)} :
      /\ Commit(after)
      /\ result' = [kind |-> "award", called |-> TRUE, order |-> orders[idx],
                    referred_by |-> members[orders[idx].member_phone].referred_by,
                    paid_orders |-> PaidCount(DB, orders[idx].member_phone),
                    commissions |-> commissions]
      /\ UNCHANGED <<procs, fnvars>>

NextAward == AwardCall

SpecAward == InitAward /\ [][NextAward]_vars

\* The conditions of the claim, on the store as it is while a call runs and
\* after it (a call changes neither members nor orders).
ReferrerPaid ==
  /\ result.referred_by \in Phones
  /\ members[result.referred_by].exists
  /\ members[result.referred_by].payment_status = "paid"

AwardInserted == result.called /\ commissions # result.commissions

ReferrerTold ==
  \/ "commission" \in Range(notes)
  \/ \E i \in 1..Len(sent) : sent[i].kind = "commission"

\* C22: award_referral_commission inserts a commission record only if the
\* order's member has a referred_by value that looks like a phone number, a
\* member record with that phone exists with payment_status paid, and the
\* referred member has at most one order in status PAID; in every other
\* case the commissions collection is unchanged and the referrer is not
\* notified.
C22_AwardOnlyIfEligible ==
  result.called =>
    /\ AwardInserted => (ReferrerPaid /\ result.paid_orders <= 1)
    /\ ~(ReferrerPaid /\ result.paid_orders <= 1) =>
         (commissions = result.commissions /\ ~ReferrerTold)
    /\ ~AwardInserted => ~ReferrerTold

C22_Witness ==
  /\ AwardInserted
  /\ Len(commissions) = 1
  /\ commissions[1].referrer_phone = "p1"
  /\ commissions[1].referred_phone = "p3"
  /\ commissions[1].amount = 110
  /\ ReferrerTold

AwardRefused ==
  /\ result.called /\ ~AwardInserted
  /\ result.referred_by = "p1" /\ members["p1"].exists
  /\ members["p1"].payment_status = "pending_review"

(***************************************************************************)
(* Specification SpecDelivered: the owner of a cluster and a personal      *)
(* shopper check out, the admin sets orders DELIVERED from the order page, *)
(* and chat turns and gateway events keep arriving afterwards.  The        *)
(* handlers run one after the other.                                       *)
(***************************************************************************)
InitDelivered ==
  /\ members = [p \in Phones |->
       IF p = "p3" THEN Onboarded("PH", "paid", "addr", NoCluster, "")
       ELSE Onboarded("PH", "paid", "addr", 1, "")]
  /\ carts = [p \in Phones |-> IF p = "p3" THEN <<Line(Rice, 1)>> ELSE <<>>]
  /\ clusters = <<PayFamily>>
  /\ orders = <<>>
  /\ commissions = <<>>
  /\ links = {}
  /\ NoEffects
  /\ procs = <<>>
  /\ fn_in = <<>>
  /\ fn_out = <<>>

\* ui_order_status: $set of the status the form carries, a notification and
\* a message to the member (a transport failure is swallowed).
ui_order_status(db, idx, status, transport_ok) ==
  TrySend(add_notification([db EXCEPT !.orders[idx].status = status], "status"),
          db.orders[idx].member_phone, "status_update", transport_ok)

AdminDeliver ==
  \E idx \in 1..Len(orders), transport_ok \in BOOLEAN :
    /\ orders[idx].status # "DELIVERED"
    /\ Commit(ui_order_status(DB, idx, "DELIVERED", transport_ok))
    /\ result' = [kind |-> "admin", before |-> orders]
    /\ UNCHANGED <<procs, fnvars>>

DeliveredTurn ==
  \E phone \in Phones,
     msg \in {[BaseMsg EXCEPT !.intent = "cart_checkout"],
              [BaseMsg EXCEPT !.intent = "payment_confirmation", !.media = TRUE]} :
    \E out \in {handle_inbound(DB, phone, msg)} :
      /\ msg.intent = "cart_checkout" => Len(orders) < MaxOrders
      /\ Commit(out.db)
      /\ result' = [kind |-> "turn", before |-> orders]
      /\ UNCHANGED <<procs, fnvars>>

DeliveredWebhook ==
  \E ev \in links, transport_ok \in BOOLEAN :
    /\ Commit(paystack_webhook(DB, ev, transport_ok))
    /\ result' = [kind |-> "webhook", before |-> orders]
    /\ UNCHANGED <<procs, fnvars>>

NextDelivered == DeliveredTurn \/ DeliveredWebhook \/ AdminDeliver

SpecDelivered == InitDelivered /\ [][NextDelivered]_vars

DeliveredKept(kinds) ==
  result.kind \in kinds =>
    \A i \in 1..Len(result.before) :
      result.before[i].status = "DELIVERED" => orders[i] = result.before[i]

\* The same for gateway events alone.
DeliveredKeptByWebhooks == DeliveredKept({"webhook"})

\* C23: once the status of an order is DELIVERED, no chat turn and no payment
\* webhook (order event, cluster_order event, payment-proof message) changes
\* its status or any other field, a late or replayed webhook with the slug
\* of the order included.
C23_DeliveredImmutable == DeliveredKept({"turn", "webhook"})

(***************************************************************************)
(* Specification SpecCartTarget: p2 is a member of the cluster Family      *)
(* (owner p1, active for p2) and the owner of the cluster Office; p3 joins *)
(* Family by its link, with the transport working or not.  p2 and p3 view, *)
(* fill, empty and check out carts, naming a cluster or the personal cart  *)
(* in some messages.                                                       *)
(***************************************************************************)
MaxTargetQty == 1

Office ==
  [name |-> "Office", owner_phone |-> "p2", max_people |-> 3, members |-> <<"p2">>,
   items |-> <<>>, is_active |-> TRUE]

InitCartTarget ==
  /\ members = [p \in Phones |->
       CASE p = "p1" -> Onboarded("PH", "paid", "addr", 1, "")
         [] p = "p2" -> Onboarded("PH", "paid", "addr", 1, "")
         [] OTHER -> Onboarded("PH", "paid", "addr", NoCluster, "")]
  /\ carts = [p \in Phones |-> <<>>]
  /\ clusters = <<PayFamily, Office>>
  /\ orders = <<>>
  /\ commissions = <<>>
  /\ links = {}
  /\ NoEffects
  /\ procs = <<>>
  /\ fn_in = <<>>
  /\ fn_out = <<>>

\* One action the gateway extracted from the text.
CartAct(action, item, target, cluster_name) ==
  [action |-> action, item |-> item, qty |-> 1, target |-> target,
   cluster_name |-> cluster_name]

SayView ==
  {[BaseMsg EXCEPT !.intent = "cart_view"]}
    \cup {[BaseMsg EXCEPT !.intent = "cart_view", !.actions = <<CartAct("view", "", t, n)>>] :
            t \in {"cluster", "personal"}, n \in {"", "Family", "Office"}}

SayAdd ==
  {[BaseMsg EXCEPT !.intent = "cart_add", !.button = "s1"],
   [BaseMsg EXCEPT !.intent = "cart_add", !.actions = <<CartAct("add", "oil", "personal", "")>>],
   [BaseMsg EXCEPT !.intent = "cart_add", !.actions = <<CartAct("add", "oil", "cluster", "Office")>>],
   [BaseMsg EXCEPT !.intent = "cart_remove",
                   !.actions = <<CartAct("remove", "rice", "cluster", "")>>]}

\* p2 does everything; p3 joins, looks at carts and adds by button.
TargetMsgs(phone) ==
  IF phone = "p2"
  THEN SayView \cup SayAdd \cup {[BaseMsg EXCEPT !.intent = "cart_checkout"]}
  ELSE {m \in SayView : m.actions = <<>> \/ m.actions[1].cluster_name = "Family"}
         \cup {[BaseMsg EXCEPT !.intent = "cart_add", !.button = "s1"]}
         \cup {[BaseMsg EXCEPT !.join_id = 1, !.text = "join", !.transport_ok = t] :
                 t \in BOOLEAN}

\* cart_view, 2017-2054: the carts the reply shows, each under its label.
\* The cluster section is decided from the member record as the turn read
\* it at its start (2022); its lines are read again through get_cart (2030).
CartViewShown(db, phone, member, msg) ==
  LET after == TurnCartView(db, phone, msg).db
      spec_cluster_name == IF msg.actions # <<>> THEN msg.actions[1].cluster_name ELSE ""
      target == IF spec_cluster_name # "" THEN "cluster"
                ELSE IF msg.actions # <<>> THEN msg.actions[1].target ELSE "cluster"
      p_cart == get_cart(after, phone, TRUE)
      cluster_id == member.current_cluster_id
      has_c == /\ cluster_id # NoCluster
               /\ HasCluster(after, cluster_id)
               /\ get_custom_cluster(after, cluster_id).is_active
      personal == [label |-> "personal", items |-> p_cart.items]
      shared == [label |-> IF has_c THEN get_custom_cluster(after, cluster_id).name ELSE "",
                 items |-> get_cart(after, phone, FALSE).items]
  IN IF TurnCartView(db, phone, msg).ret.intent # "cart_view" THEN {}
     ELSE IF target = "personal" \/ ~has_c THEN {personal}
     ELSE IF target = "cluster" THEN {shared}
     ELSE {personal, shared}

\* The target an add or a view was asked for: personal mode forced or not.
ForcedPersonal(db, phone, msg) ==
  /\ msg.actions # <<>>
  /\ msg.actions[1].target = "personal"
  /\ ClusterNamed(db, phone, msg.actions[1].cluster_name) = NoCluster

TargetTurn ==
  \E phone \in {"p2", "p3"} :
    \E msg \in TargetMsgs(phone) :
      \E out \in {handle_inbound(DB, phone, msg)} :
        /\ Len(out.db.orders) <= 1
        /\ \A c \in 1..Len(out.db.clusters) :
             \A i \in 1..Len(out.db.clusters[c].items) :
               out.db.clusters[c].items[i].qty <= MaxTargetQty
        /\ \A p \in Phones : \A i \in 1..Len(out.db.carts[p]) :
             out.db.carts[p][i].qty <= MaxTargetQty
        /\ Commit(out.db)
        /\ result' = [kind |-> "turn", phone |-> phone,
                      intent |-> IF out.ret.kind = "returned" THEN out.ret.intent ELSE "raised",
                      forced |-> ForcedPersonal(DB, phone, msg),
                      shown |-> IF msg.intent = "cart_view" /\ msg.join_id = NoToken
                                THEN CartViewShown(DB, phone, members[phone], msg) ELSE {},
                      added |-> IF msg.button = "s1" THEN "rice"
                                ELSE IF msg.actions # <<>> /\ msg.actions[1].action = "add"
                                THEN msg.actions[1].item ELSE "",
                      cart_before |-> get_cart(DB, phone, FALSE).items]
        /\ UNCHANGED <<procs, fnvars>>

NextCartTarget == TargetTurn

SpecCartTarget == InitCartTarget /\ [][NextCartTarget]_vars

\* The cart the stored member record resolves to, personal mode not forced.
ActiveCart(phone) == get_cart(DB, phone, FALSE)

\* The view shows the lines of the resolved cart, under the label of that
\* cart, unless the personal cart was asked for.
ViewShowsActiveCart ==
  (result.kind = "turn" /\ result.intent = "cart_view" /\ ~result.forced) =>
    \E s \in result.shown :
      /\ s.items = ActiveCart(result.phone).items
      /\ ActiveCart(result.phone).cluster_id # NoCluster => s.label # "personal"

ViewLabelsActiveCart ==
  (result.kind = "turn" /\ result.intent = "cart_view" /\ ~result.forced) =>
    \A s \in result.shown :
      s.label # "personal" => s.label = ActiveCart(result.phone).cluster_name

\* What an add put into a cart is a line of the resolved cart after the turn.
AddGoesToActiveCart ==
  (result.kind = "turn" /\ result.intent \in {"cart_add_payload", "cart_mod"}
     /\ result.added # "" /\ ~result.forced) =>
    \E i \in 1..Len(ActiveCart(result.phone).items) :
      ActiveCart(result.phone).items[i].name = result.added

\* A checkout that placed an order took the lines of the resolved cart.
CheckoutTakesActiveCart ==
  (result.kind = "turn"
     /\ result.intent \in {"cart_checkout_paystack", "cart_checkout_cluster"}) =>
    /\ orders[Len(orders)].items = OrderItems(result.cart_before)
    /\ ActiveCart(result.phone).items = <<>>

\* C24: view, add, remove and checkout all resolve the same target cart for
\* a member, within one turn and across turns: the items of the cluster the
\* stored current_cluster_id names when it is set and the personal cart is
\* not asked for, the personal cart otherwise; what one operation added is in
\* the cart view and checkout then use, also in a turn that switches the
\* active cluster.
C24_OneTargetCart ==
  /\ ViewShowsActiveCart
  /\ AddGoesToActiveCart
  /\ CheckoutTakesActiveCart

(***************************************************************************)
(* Specification SpecAddress: the owner of a cluster and a personal        *)
(* shopper, neither with an address on file, check out and answer the      *)
(* request for an address; the answer is a text or a picture without text, *)
(* and the classification gateway is absent or gives one of its answers.   *)
(***************************************************************************)
InitAddress ==
  /\ \E pay \in {"paid", "pending_review"} :
       members = [p \in Phones |->
         CASE p = "p1" -> Onboarded("PH", "paid", "", 1, "")
           [] p = "p2" -> Onboarded("PH", "paid", "", 1, "")
           [] OTHER -> Onboarded("PH", pay, "", NoCluster, "")]
  /\ carts = [p \in Phones |-> IF p = "p3" THEN <<Line(Rice, 1)>> ELSE <<>>]
  /\ clusters = <<PayFamily>>
  /\ orders = <<>>
  /\ commissions = <<>>
  /\ links = {}
  /\ NoEffects
  /\ procs = <<>>
  /\ fn_in = <<>>
  /\ fn_out = <<>>

\* The answer to the address request, and what the gateway makes of the
\* text CHECKOUT the handler puts in its place.
SayAddress ==
  {[BaseMsg EXCEPT !.text = t, !.ai = a, !.intent = i] :
     t \in {"", "12 Marina Road"}, a \in BOOLEAN,
     i \in {"cart_checkout", "cart_view", "other", "none", "timeout", "error"}}

AddressMsgs(state) ==
  IF state = "awaiting_address" THEN SayAddress
  ELSE {[BaseMsg EXCEPT !.intent = "cart_checkout"]}

AddressTurn ==
  \E phone \in {"p1", "p3"} :
    \E msg \in AddressMsgs(members[phone].state) :
      \E out \in {handle_inbound(DB, phone, msg)} :
        /\ Len(out.db.orders) <= MaxOrders
        /\ Commit(out.db)
        /\ result' = [kind |-> "turn", phone |-> phone,
                      state_before |-> members[phone].state, text |-> msg.text,
                      ret |-> out.ret, orders |-> Len(orders)]
        /\ UNCHANGED <<procs, fnvars>>

NextAddress == AddressTurn

SpecAddress == InitAddress /\ [][NextAddress]_vars

AddressAnswered == result.kind = "turn" /\ result.state_before = "awaiting_address"

\* The tags of the results of the checkout handler, 2059-2137.
CheckoutTags ==
  {"cart_checkout_paystack", "cart_checkout_cluster", "cart_checkout_fail",
   "cart_checkout_empty", "checkout_restricted", "checkout_blocked",
   "checkout_cluster_missing", "checkout_need_address"}

AddressStored ==
  AddressAnswered => members[result.phone].address = result.text

CheckoutRunsAfterAddress ==
  AddressAnswered =>
    (result.ret.kind = "returned" /\ result.ret.intent \in CheckoutTags)

AddressStateLeft ==
  AddressAnswered => members[result.phone].state # "awaiting_address"

\* C25: a message received in awaiting_address is stored as the address of
\* the member, and the same turn runs the checkout handler on the cart of
\* the member (an order or a refusal of the checkout) whatever the intent
\* classifier returns; the persisted state is never awaiting_address after
\* the turn.
C25_AddressThenCheckout ==
  /\ AddressStored
  /\ CheckoutRunsAfterAddress
  /\ AddressStateLeft

(***************************************************************************)
(* Specification SpecAffirm: a personal shopper and a member of a cluster  *)
(* search the catalogue, are shown one or two products, and reply: by      *)
(* naming a product, or with a bare affirmation ("yes", "add", "ok").      *)
(* The gateway classifies the reply, first in the context of the held      *)
(* products and, when the turn goes on to the main flow, once more.        *)
(***************************************************************************)
Oil == CHOOSE p \in Products : p.sku = "s2"

InitAffirm ==
  /\ members = [p \in Phones |->
       IF p = "p3" THEN Onboarded("PH", "paid", "addr", NoCluster, "")
       ELSE Onboarded("PH", "paid", "addr", 1, "")]
  /\ carts = [p \in Phones |-> <<>>]
  /\ clusters = <<[PayFamily EXCEPT !.items = <<>>]>>
  /\ orders = <<>>
  /\ commissions = <<>>
  /\ links = {}
  /\ NoEffects
  /\ procs = <<>>
  /\ fn_in = <<>>
  /\ fn_out = <<>>

SayLookFor ==
  {[BaseMsg EXCEPT !.intent = "catalog_search", !.text = "rice", !.results = r] :
     r \in {<<Rice>>, <<Rice, Oil>>}}

\* A reply that names no product, and a reply that names one.
SayAffirm ==
  {[BaseMsg EXCEPT !.text = "yes", !.simple_add = TRUE, !.ai = a, !.intent_check = ic,
                   !.intent = i] :
     a \in BOOLEAN, ic \in {"cart_add", "cart_checkout", "other", "none"},
     i \in {"other", "cart_add"}}

SayPick ==
  {[BaseMsg EXCEPT !.text = "the oil", !.intent_check = "cart_add", !.pick = Oil]}

AffirmMsgs(state) ==
  IF state = "awaiting_cart_action" THEN SayAffirm \cup SayPick ELSE SayLookFor

\* A cart has a line it did not have, or more of one.
Grew(before, after) ==
  \E i \in 1..Len(after) :
    \A j \in 1..Len(before) :
      before[j].sku = after[i].sku => before[j].qty < after[i].qty

AffirmTurn ==
  \E phone \in {"p2", "p3"} :
    \E msg \in AffirmMsgs(members[phone].state) :
      \E out \in {handle_inbound(DB, phone, msg)} :
        /\ WithinBounds(out.db)
        /\ Commit(out.db)
        /\ result' = [kind |-> "turn", phone |-> phone,
                      state_before |-> members[phone].state,
                      held |-> members[phone].recent_products,
                      bare |-> msg.simple_add,
                      ret |-> out.ret,
                      added |-> \/ Grew(get_cart(DB, phone, FALSE).items,
                                        get_cart(out.db, phone, FALSE).items)
                                \/ Grew(get_cart(DB, phone, TRUE).items,
                                        get_cart(out.db, phone, TRUE).items)]
        /\ UNCHANGED <<procs, fnvars>>

NextAffirm == AffirmTurn

SpecAffirm == InitAffirm /\ [][NextAffirm]_vars

BareAffirmation ==
  /\ result.kind = "turn"
  /\ result.state_before = "awaiting_cart_action"
  /\ Len(result.held) > 1
  /\ result.bare

AffirmAddsNothing == BareAffirmation => ~result.added

AffirmKeepsCandidates ==
  BareAffirmation =>
    /\ members[result.phone].recent_products = result.held
    /\ members[result.phone].state = "awaiting_cart_action"

AffirmAsksWhich ==
  BareAffirmation =>
    (result.ret.kind = "returned" /\ result.ret.intent = "cart_add_clarify")

\* C26: in awaiting_cart_action with more than one held candidate, a reply
\* that is a bare affirmation with no product identifier never adds anything
\* to a cart: the reply asks which product is meant, the held candidates are
\* kept and the state stays awaiting_cart_action.
C26_BareAffirmationAsks ==
  /\ AffirmAddsNothing
  /\ AffirmAsksWhich
  /\ AffirmKeepsCandidates

(***************************************************************************)
(* SpecScratch: the product selection a search leaves on the member        *)
(* document (last_product, recent_products) over the turns of two members  *)
(* and the /mark_paid command of an admin phone.                           *)
(***************************************************************************)
InitScratch ==
  /\ members = [p \in Phones |->
       IF p = "p3" THEN Onboarded("PH", "pending_review", "", NoCluster, "")
       ELSE Onboarded("PH", "paid", "addr", NoCluster, "")]
  /\ carts = [p \in Phones |-> <<>>]
  /\ clusters = <<>>
  /\ orders = <<>>
  /\ commissions = <<>>
  /\ links = {}
  /\ NoEffects
  /\ procs = <<>>
  /\ fn_in = <<>>
  /\ fn_out = <<>>

\* What a member may answer while a selection is held.
SayReply ==
  {[BaseMsg EXCEPT !.ai = a, !.intent_check = ic, !.intent = i, !.results = r] :
     a \in BOOLEAN,
     ic \in {"cart_add", "cart_checkout", "cart_view", "catalog_search", "other", "none"},
     i \in {"cart_view", "catalog_search", "cart_checkout"},
     r \in {<<>>, <<Oil>>}}

ScratchMsgs(state) ==
  CASE state = "awaiting_cart_action" -> SayReply
    [] state = "awaiting_address" -> {[BaseMsg EXCEPT !.text = "12 Marina Road"]}
    [] OTHER -> {[m EXCEPT !.transport_ok = t] : m \in SayLookFor, t \in BOOLEAN}

ScratchTurn ==
  \E phone \in {"p3"} :
    \E msg \in ScratchMsgs(members[phone].state) :
      \E out \in {handle_inbound(DB, phone, msg)} :
        /\ WithinBounds(out.db)
        /\ Commit(out.db)
        /\ result' = [kind |-> "turn", phone |-> phone,
                      state_before |-> members[phone].state]
        /\ UNCHANGED <<procs, fnvars>>

\* handle_admin_command, "/mark_paid <phone>": 1093-1096.
mark_paid(db, target) ==
  upsert_member_state(db, target, [payment_status |-> "paid", state |-> "idle"])

MarkPaid ==
  \E target \in {"p3"} :
    /\ Commit(mark_paid(DB, target))
    /\ result' = [kind |-> "mark_paid", phone |-> target,
                  state_before |-> members[target].state]
    /\ UNCHANGED <<procs, fnvars>>

NextScratch == ScratchTurn \/ MarkPaid

SpecScratch == InitScratch /\ [][NextScratch]_vars

NoSelection(m) == m.last_product = NoProduct /\ m.recent_products = <<>>

\* A selection is held only in awaiting_cart_action.
SelectionOnlyWhileAwaited ==
  \A p \in Phones :
    ~NoSelection(members[p]) => members[p].state = "awaiting_cart_action"

LeftCartAction ==
  /\ result.kind = "turn"
  /\ result.state_before = "awaiting_cart_action"
  /\ members[result.phone].state # "awaiting_cart_action"

\* A turn that leaves awaiting_cart_action leaves no selection and state idle.
LeavingClearsSelection ==
  LeftCartAction => NoSelection(members[result.phone])

LeavingPersistsIdle ==
  LeftCartAction => members[result.phone].state = "idle"

\* C27: last_product and recent_products are non-empty only while the
\* member's persisted state is awaiting_cart_action; every turn that leaves
\* awaiting_cart_action clears both fields and persists state idle.
C27_SelectionOnlyWhileAwaited ==
  /\ SelectionOnlyWhileAwaited
  /\ LeavingClearsSelection
  /\ LeavingPersistsIdle

(***************************************************************************)
(* SpecNewCluster: one member sets clusters up through the conversation:   *)
(* the creation request with or without a name, the name asked for in      *)
(* awaiting_cluster_name, the limit asked for in awaiting_cluster_limit.    *)
(***************************************************************************)
MaxSetups == 2

InitNewCluster ==
  /\ members = [p \in Phones |-> Onboarded("PH", "paid", "addr", NoCluster, "")]
  /\ carts = [p \in Phones |-> <<>>]
  /\ clusters = <<>>
  /\ orders = <<>>
  /\ commissions = <<>>
  /\ links = {}
  /\ NoEffects
  /\ procs = <<>>
  /\ fn_in = <<>>
  /\ fn_out = <<>>

\* A message without text is a picture sent without a caption.
SetupMsgs(state) ==
  CASE state = "awaiting_cluster_name" ->
         {[BaseMsg EXCEPT !.text = t, !.media = (t = "")] : t \in {"", "Office", "Family"}}
    [] state = "awaiting_cluster_limit" ->
         {[BaseMsg EXCEPT !.text = "limit", !.digits = d] :
            d \in (0..MaxLimit) \cup {NoDigits}}
    [] OTHER ->
         {[BaseMsg EXCEPT !.intent = "cluster_create", !.cname = n] : n \in {"", "Family"}}

\* named: the text of the turn in awaiting_cluster_name that came before
\* the turn, none when the name came with the creation request.
SetupTurn ==
  \E phone \in {"p1"} :
    \E msg \in SetupMsgs(members[phone].state) :
      \E out \in {handle_inbound(DB, phone, msg)} :
        /\ Len(out.db.clusters) <= MaxSetups
        /\ Commit(out.db)
        /\ result' = [kind |-> "turn", phone |-> phone,
                      state_before |-> members[phone].state,
                      named |-> CASE members[phone].state = "awaiting_cluster_name" ->
                                       <<msg.text>>
                                  [] members[phone].state = "awaiting_cluster_limit" ->
                                       result.named
                                  [] OTHER -> <<>>,
                      temp |-> members[phone].temp_cluster_name,
                      digits |-> msg.digits,
                      before |-> clusters]
        /\ UNCHANGED <<procs, fnvars>>

NextNewCluster == SetupTurn

SpecNewCluster == InitNewCluster /\ [][NextNewCluster]_vars

LimitTurn == result.kind = "turn" /\ result.state_before = "awaiting_cluster_limit"

Created == clusters[Len(clusters)]

OneClusterCreated ==
  LimitTurn =>
    /\ Len(clusters) = Len(result.before) + 1
    /\ SubSeq(clusters, 1, Len(result.before)) = result.before

CreatedForOwner ==
  LimitTurn =>
    /\ Created.owner_phone = result.phone
    /\ Created.members = <<result.phone>>
    /\ Created.items = <<>>
    /\ Created.max_people = IF result.digits = NoDigits THEN 5 ELSE result.digits

CreatorMovedIn ==
  LimitTurn =>
    /\ members[result.phone].current_cluster_id = Len(clusters)
    /\ members[result.phone].state = "idle"

NamedAsGiven ==
  (LimitTurn /\ result.named # <<>>) => Created.name = result.named[1]

NamedAsHeld ==
  /\ LimitTurn =>
       Created.name = IF result.temp # "" THEN result.temp ELSE "My Cluster"
  /\ (LimitTurn /\ result.named # <<>> /\ result.named[1] # "") =>
       Created.name = result.named[1]

\* C28 (as stated): a turn in awaiting_cluster_limit creates exactly one
\* cluster whose owner_phone is the member, whose members are exactly the
\* owner, whose items are empty, whose name is the text given in
\* awaiting_cluster_name and whose max_people is the first integer of the
\* reply (5 when there is none); the cluster becomes the member's
\* current_cluster_id and the state idle.
C28_NamedAsGiven ==
  /\ OneClusterCreated
  /\ CreatedForOwner
  /\ CreatorMovedIn
  /\ NamedAsGiven

\* C28 (amended): the same, with the name being the temp_cluster_name the
\* member record holds (the text given in awaiting_cluster_name, or the name
\* that came with the creation request), and "My Cluster" when that is empty.
C28_ClusterCreated ==
  /\ OneClusterCreated
  /\ CreatedForOwner
  /\ CreatorMovedIn
  /\ NamedAsHeld

\* A second cluster set up with a name and without a number in the reply.
C28_Witness ==
  /\ LimitTurn
  /\ Len(clusters) = 2
  /\ result.named = <<"Office">>
  /\ result.digits = NoDigits
  /\ Created.name = "Office"
  /\ Created.max_people = 5
  /\ members["p1"].current_cluster_id = 2

(***************************************************************************)
(* SpecOrder: create_order_from_cart called for an owner whose active cart *)
(* is the cluster's, for a member of that cluster who is not its owner and *)
(* for a member with a personal cart, between additions to the carts.      *)
(***************************************************************************)
InitOrder ==
  /\ members = [p \in Phones |->
       IF p = "p3" THEN Onboarded("PH", "paid", "addr", NoCluster, "")
       ELSE Onboarded("PH", "paid", "addr", 1, "")]
  /\ carts = [p \in Phones |-> <<>>]
  /\ clusters = <<Family>>
  /\ orders = <<>>
  /\ commissions = <<>>
  /\ links = {}
  /\ NoEffects
  /\ procs = <<>>
  /\ fn_in = <<>>
  /\ fn_out = <<>>

\* The owner also keeps lines in the personal cart, which is not the active
\* one.
PutInCart ==
  \E phone \in Phones, product \in Products, force_personal \in BOOLEAN :
    \E db \in {add_item_to_cart(DB, phone, product, 1, force_personal)} :
      /\ force_personal => (phone = "p1" /\ product = Oil)
      /\ phone = "p3" => product = Rice
      /\ WithinBounds(db)
      /\ Commit(db)
      /\ result' = [kind |-> "put"]
      /\ UNCHANGED <<procs, fnvars>>

CreateOrder ==
  \E phone \in Phones :
    \E out \in {create_order_from_cart(DB, phone)} :
      /\ WithinBounds(out.db)
      /\ Commit(out.db)
      /\ result' = [kind |-> "order", phone |-> phone, slug |-> out.slug,
                    cart |-> get_cart(DB, phone, FALSE),
                    before |-> [orders |-> orders, carts |-> carts, clusters |-> clusters]]
      /\ UNCHANGED <<procs, fnvars>>

NextOrder == PutInCart \/ CreateOrder

SpecOrder == InitOrder /\ [][NextOrder]_vars

OrderCreated ==
  /\ result.kind = "order"
  /\ result.slug # NoSlug
  /\ result.slug # Restricted

\* One order more, WAITING_PAYMENT, one item for each line of the cart.
OneOrderFromCart ==
  OrderCreated =>
    LET order == orders[Len(orders)]
        lines == result.cart.items
    IN /\ Len(orders) = Len(result.before.orders) + 1
       /\ SubSeq(orders, 1, Len(result.before.orders)) = result.before.orders
       /\ order.status = "WAITING_PAYMENT"
       /\ order.member_phone = result.phone
       /\ order.slug = result.slug
       /\ lines # <<>>
       /\ Len(order.items) = Len(lines)
       /\ \A i \in 1..Len(lines) :
            order.items[i].sku = lines[i].name /\ order.items[i].qty = lines[i].qty

\* The cart the lines came from is empty and the other carts are as before.
SourceCartEmptied ==
  OrderCreated =>
    IF result.cart.cluster_id # NoCluster
    THEN /\ clusters[result.cart.cluster_id].items = <<>>
         /\ clusters = [result.before.clusters EXCEPT ![result.cart.cluster_id].items = <<>>]
         /\ carts = result.before.carts
    ELSE /\ carts[result.phone] = <<>>
         /\ carts = [result.before.carts EXCEPT ![result.phone] = <<>>]
         /\ clusters = result.before.clusters

EmptyCartNoOrder ==
  (result.kind = "order" /\ result.cart.items = <<>>) =>
    /\ ~OrderCreated
    /\ orders = result.before.orders
    /\ carts = result.before.carts
    /\ clusters = result.before.clusters

\* C29: a successful create_order_from_cart inserts exactly one order in
\* status WAITING_PAYMENT built from the lines of the resolved active cart
\* and leaves that source cart (the cluster's items when cluster-backed,
\* otherwise the personal cart) with zero lines; when the resolved cart is
\* empty it inserts no order and changes no cart.
C29_OrderTakesTheCart ==
  /\ OneOrderFromCart
  /\ SourceCartEmptied
  /\ EmptyCartNoOrder

\* The owner ordered the cluster's two lines while the personal cart holds
\* a line, after an earlier order.
C29_Witness ==
  /\ OrderCreated
  /\ result.phone = "p1"
  /\ result.cart.cluster_id = 1
  /\ Len(result.cart.items) = 2
  /\ carts["p1"] # <<>>
  /\ Len(orders) = 2
  /\ clusters[1].items = <<>>

(***************************************************************************)
(* SpecGate: checkout turns of members with and without an address, with   *)
(* and without a paid subscription, on an empty and on a filled cart, the  *)
(* personal one or the cluster's.                                          *)
(***************************************************************************)
InitGate ==
  /\ \E addr \in {"", "addr"}, pay \in {"paid", "pending_review"} :
       \E own \in {NoCluster, 1}, joined \in {NoCluster, 1} :
         members = [p \in Phones |->
           CASE p = "p1" -> Onboarded("PH", pay, addr, own, "")
             [] p = "p2" -> Onboarded("PH", pay, addr, joined, "")
             [] OTHER -> Onboarded("PH", "paid", "addr", NoCluster, "")]
  /\ carts = [p \in Phones |-> <<>>]
  /\ clusters = <<Family>>
  /\ orders = <<>>
  /\ commissions = <<>>
  /\ links = {}
  /\ NoEffects
  /\ procs = <<>>
  /\ fn_in = <<>>
  /\ fn_out = <<>>

GateMsgs(state) ==
  IF state = "awaiting_address"
  THEN {[BaseMsg EXCEPT !.text = t, !.intent = "cart_checkout"] : t \in {"", "12 Marina Road"}}
  ELSE {[BaseMsg EXCEPT !.intent = "cart_checkout"]}

\* address: what the checkout finds on file, the text of the turn when the
\* turn is the answer to the request for the address.
GateTurn ==
  \E phone \in {"p1", "p2"} :
    \E msg \in GateMsgs(members[phone].state) :
      \E out \in {handle_inbound(DB, phone, msg)} :
        /\ WithinBounds(out.db)
        /\ Commit(out.db)
        /\ result' = [kind |-> "turn", phone |-> phone,
                      checkout |-> IsCheckout(DB, phone, msg),
                      address |-> IF members[phone].state = "awaiting_address"
                                  THEN msg.text ELSE members[phone].address,
                      paid |-> members[phone].payment_status = "paid",
                      cart |-> get_cart(DB, phone, FALSE),
                      changed |-> Changed(DB, out.db)]
        /\ UNCHANGED <<procs, fnvars>>

GatePut ==
  \E phone \in {"p1", "p2"} :
    \E db \in {add_item_to_cart(DB, phone, Rice, 1, FALSE)} :
      /\ WithinBounds(db)
      /\ Commit(db)
      /\ result' = [kind |-> "put"]
      /\ UNCHANGED <<procs, fnvars>>

NextGate == GatePut \/ GateTurn

SpecGate == InitGate /\ [][NextGate]_vars

CheckoutDone == result.kind = "turn" /\ result.checkout

\* The checkout went past the cart: it has lines, and it is the member's own
\* or a cluster's the member owns.
CartCanBeOrdered ==
  /\ result.cart.items # <<>>
  /\ result.cart.cluster_id # NoCluster =>
       clusters[result.cart.cluster_id].owner_phone = result.phone

OrderOnlyWithAddressAndPaid ==
  (CheckoutDone /\ result.changed.orders) => (result.address # "" /\ result.paid)

NoAddressNoOrder ==
  (CheckoutDone /\ result.address = "") => ~result.changed.orders

NoAddressAsksForIt ==
  (CheckoutDone /\ result.address = "") =>
    members[result.phone].state = "awaiting_address"

NoAddressAsksForItWithCart ==
  (CheckoutDone /\ result.address = "") =>
    members[result.phone].state =
      IF CartCanBeOrdered THEN "awaiting_address" ELSE "idle"

NotPaidBlocked ==
  (CheckoutDone /\ result.address # "" /\ ~result.paid) =>
    /\ ~result.changed.orders
    /\ ~result.changed.carts
    /\ ~result.changed.clusters
    /\ members[result.phone].state = "idle"

\* C30 (as stated): a checkout turn creates an order only for a member with
\* an address on file and payment_status paid; with no address the member
\* is moved to awaiting_address and no order is created; with an address
\* but payment_status not paid no order is created, the cart is unchanged
\* and the state stays idle.
C30_NoAddressAlwaysAsks ==
  /\ OrderOnlyWithAddressAndPaid
  /\ NoAddressNoOrder
  /\ NoAddressAsksForIt
  /\ NotPaidBlocked

\* C30 (amended): the same, the member without an address being moved to
\* awaiting_address when the active cart has lines and is the member's to
\* check out, and left in idle when it is empty or another member's
\* cluster cart.
C30_CheckoutGated ==
  /\ OrderOnlyWithAddressAndPaid
  /\ NoAddressNoOrder
  /\ NoAddressAsksForItWithCart
  /\ NotPaidBlocked

\* A checkout of a filled cart by a member with an address and no paid
\* subscription, after one by a member without an address.
C30_Witness ==
  /\ CheckoutDone
  /\ CartCanBeOrdered
  /\ result.address # ""
  /\ ~result.paid
  /\ orders = <<>>
  /\ members[result.phone].state = "idle"
  /\ \E p \in Phones : members[p].state = "awaiting_address"

(***************************************************************************)
(* SpecClusterPaid: checkouts of a cluster cart (Lagos Mainland) and of a  *)
(* personal cart (Lagos Island), and the charge.success events of their    *)
(* links handled one at a time.  procs is the history of the deliveries:   *)
(* the event, the order the handler found for its slug, and whether the    *)
(* handler computed all_paid.                                              *)
(***************************************************************************)
InitClusterPaid ==
  /\ members = [p \in Phones |->
       CASE p = "p1" -> Onboarded("Lagos Mainland", "paid", "addr", 1, "")
         [] p = "p2" -> Onboarded("Lagos Mainland", "paid", "addr", 1, "p1")
         [] OTHER -> Onboarded("Lagos Island", "paid", "addr", NoCluster, "p1")]
  /\ carts = [p \in Phones |-> IF p = "p3" THEN <<Line(Rice, 1)>> ELSE <<>>]
  /\ clusters = <<PayFamily>>
  /\ orders = <<>>
  /\ commissions = <<>>
  /\ links = {}
  /\ NoEffects
  /\ procs = {}
  /\ fn_in = <<>>
  /\ fn_out = <<>>

PaidShopTurn ==
  \E phone \in {"p1", "p3"} :
    \E msg \in {[BaseMsg EXCEPT !.intent = "cart_checkout"], AddRiceMsg} :
      \E out \in {handle_inbound(DB, phone, msg)} :
        /\ Len(out.db.orders) <= MaxOrders
        /\ msg = AddRiceMsg => get_cart(DB, phone, FALSE).items = <<>>
        /\ Commit(out.db)
        /\ result' = [kind |-> "turn"]
        /\ UNCHANGED <<procs, fnvars>>

\* 156-196: the order the handler finds and the all_paid it computes.
DeliveryFinds(db, ev) ==
  LET idx == FindSlug(db, ev.order_slug)
  IN [ev |-> ev, idx |-> idx,
      all_paid |-> /\ ev.type = "cluster_order"
                   /\ idx # 0
                   /\ AllPaid(db.orders[idx],
                              RecordPayment(db.orders[idx].cluster_payments, ev.phone,
                                            ev.share_kobo),
                              ev.total_kobo)]

PaidDelivery ==
  \E ev \in links, transport_ok \in BOOLEAN :
    /\ Commit(paystack_webhook(DB, ev, transport_ok))
    /\ procs' = procs \cup {DeliveryFinds(DB, ev)}
    /\ result' = [kind |-> "delivery", found |-> DeliveryFinds(DB, ev)]
    /\ UNCHANGED fnvars

NextClusterPaid == PaidShopTurn \/ PaidDelivery

SpecClusterPaid == InitClusterPaid /\ [][NextClusterPaid]_vars

\* The event of the link the checkout of order i sent to member m was
\* delivered.
ShareDelivered(i, m) ==
  \E d \in procs :
    /\ d.ev.type = "cluster_order"
    /\ d.ev.order_slug = orders[i].slug
    /\ d.ev.phone = m

AllSharesDelivered(i) ==
  /\ orders[i].cluster_id # NoCluster
  /\ orders[i].cluster_members # <<>>
  /\ \A m \in Range(orders[i].cluster_members) : ShareDelivered(i, m)

EngineInvoked(i) == \E d \in procs : d.idx = i /\ d.all_paid

\* The delivery that computes all_paid leaves the order it found PAID.
PaidWhenCovered ==
  (result.kind = "delivery" /\ result.found.all_paid) =>
    orders[result.found.idx].status = "PAID"

PaidOnceAllDelivered ==
  \A i \in 1..Len(orders) :
    AllSharesDelivered(i) => (orders[i].status = "PAID" /\ EngineInvoked(i))

\* C31: with the cluster_order events of a cluster order handled one at a
\* time, the order becomes PAID at the first delivery after which the PAID
\* amount reaches the target total or the PAID entries reach the number of
\* expected members; once every expected member's payment has been
\* delivered the order is PAID and the commission engine has been invoked
\* for it.
C31_PaidOnceAllDelivered ==
  /\ PaidWhenCovered
  /\ PaidOnceAllDelivered

(***************************************************************************)
(* SpecRemove: the matching and the loop of remove_item_from_cart, 810-836,*)
(* on the items of the cart the call resolved.  Names and queries are      *)
(* sequences of characters, so that lower(), strip() and "in" are computed.*)
(***************************************************************************)
MaxLines == 3
MaxQueryLen == 3

NameChars == {"a", "b", "A"}
QueryChars == NameChars \cup {" "}

SeqsUpTo(S, n) == UNION {[1..k -> S] : k \in 0..n}

\* Product names in the cart.
LineNames == {<<"a">>, <<"b">>, <<"a", "b">>, <<"A", "b">>, <<"b", "a">>}

\* str.lower()
Lower(s) == [i \in 1..Len(s) |-> IF s[i] = "A" THEN "a" ELSE s[i]]

\* str.strip()
RECURSIVE Strip(_)
Strip(s) ==
  IF s = <<>> THEN s
  ELSE IF Head(s) = " " THEN Strip(Tail(s))
  ELSE IF s[Len(s)] = " " THEN Strip(SubSeq(s, 1, Len(s) - 1))
  ELSE s

\* needle in hay
Within(needle, hay) ==
  \E i \in 0..(Len(hay) - Len(needle)) : SubSeq(hay, i + 1, i + Len(needle)) = needle

\* 824-826
Matches(it, query_lower) ==
  Within(query_lower, Lower(it.name)) \/ Within(Lower(it.name), query_lower)

\* The loop with every matching line dropped.
RECURSIVE drop_every_match(_, _, _)
drop_every_match(items, query_lower, removed) ==
  IF items = <<>> THEN [new_items |-> <<>>, removed |-> removed]
  ELSE IF Matches(Head(items), query_lower)
  THEN drop_every_match(Tail(items), query_lower, TRUE)
  ELSE LET rest == drop_every_match(Tail(items), query_lower, removed)
       IN [new_items |-> <<Head(items)>> \o rest.new_items, removed |-> rest.removed]

\* 820-831: the loop over the items.
RECURSIVE RemoveLoop(_, _, _)
RemoveLoop(items, query_lower, removed) ==
  IF items = <<>> THEN [new_items |-> <<>>, removed |-> removed]
  ELSE IF Matches(Head(items), query_lower) /\ ~removed
  THEN RemoveLoop(Tail(items), query_lower, TRUE)
  ELSE LET rest == RemoveLoop(Tail(items), query_lower, removed)
       IN [new_items |-> <<Head(items)>> \o rest.new_items, removed |-> rest.removed]

\* 811-836 on the items of the resolved cart: the items the cart holds after
\* the call and what the call returns (None on an empty cart).
RemoveFromItems(items, item_query) ==
  LET loop == RemoveLoop(items, Strip(Lower(item_query)), FALSE)
  IN IF items = <<>> THEN [items |-> items, ret |-> "None"]
     ELSE IF loop.removed THEN [items |-> loop.new_items, ret |-> "True"]
     ELSE [items |-> items, ret |-> "False"]

\* The lines of a cart with the given product names, one sku each.
LinesNamed(names) == [i \in 1..Len(names) |-> [sku |-> i, name |-> names[i], qty |-> 1]]

InitRemove ==
  /\ EmptyStore
  /\ NoEffects
  /\ procs = <<>>
  /\ fn_in \in [names : SeqsUpTo(LineNames, MaxLines),
                item_query : SeqsUpTo(QueryChars, MaxQueryLen)]
  /\ fn_out = [done |-> FALSE]

RemoveCall ==
  /\ fn_out.done = FALSE
  /\ fn_out' = [done |-> TRUE,
                out |-> RemoveFromItems(LinesNamed(fn_in.names), fn_in.item_query)]
  /\ UNCHANGED <<store, effects, procs, fn_in>>

NextRemove == RemoveCall

SpecRemove == InitRemove /\ [][NextRemove]_vars

\* The positions of the lines whose name contains the query, and of those
\* whose name contains the query or is contained in it.
Containing(items, q) == {i \in 1..Len(items) : Within(q, Lower(items[i].name))}

EitherWay(items, q) ==
  {i \in 1..Len(items) :
     Within(q, Lower(items[i].name)) \/ Within(Lower(items[i].name), q)}

\* items without the line at position i.
Without(items, i) ==
  [k \in 1..(Len(items) - 1) |-> IF k < i THEN items[k] ELSE items[k + 1]]

\* The call removed the first line of hits, or nothing when there is none.
RemovesFirstOf(hits) ==
  LET items == LinesNamed(fn_in.names)
  IN IF hits = {}
     THEN fn_out.out.items = items /\ fn_out.out.ret # "True"
     ELSE /\ fn_out.out.items = Without(items, CHOOSE i \in hits : \A j \in hits : i <= j)
          /\ fn_out.out.ret = "True"

MinQty == 0 - 1

\* The quantities of the extraction: any number of the JSON answer.
ExtractedQtys == MinQty..MaxQty

SayAddQty ==
  {[BaseMsg EXCEPT !.intent = "cart_add",
                   !.actions = <<[action |-> "add", item |-> n, qty |-> q, target |-> t,
                                  cluster_name |-> ""]>>] :
     n \in {"rice", "oil"}, q \in ExtractedQtys, t \in {"cluster", "personal"}}

QtyWithinBounds(db) ==
  /\ \A c \in 1..Len(db.clusters) :
       \A i \in 1..Len(db.clusters[c].items) :
         db.clusters[c].items[i].qty \in MinQty..MaxQty
  /\ \A p \in Phones :
       \A i \in 1..Len(db.carts[p]) : db.carts[p][i].qty \in MinQty..MaxQty

QtyTurn ==
  \E phone \in {"p1"} :
    \E msg \in SayAddQty :
      \E out \in {handle_inbound(DB, phone, msg)} :
        /\ QtyWithinBounds(out.db)
        /\ Commit(out.db)
        /\ result' = [kind |-> "turn", phone |-> phone, qty |-> msg.actions[1].qty]
        /\ UNCHANGED <<procs, fnvars>>

NextQty == QtyTurn

SpecQty == InitCart /\ [][NextQty]_vars

\* C33: in every reachable state every line of every personal cart and of
\* every cluster cart has qty >= 1, for every quantity the cart-action
\* extraction can hand to add_item_to_cart.
C33_QtyAtLeastOne ==
  /\ \A p \in Phones : \A i \in 1..Len(carts[p]) : carts[p][i].qty >= 1
  /\ \A c \in 1..Len(clusters) :
       \A i \in 1..Len(clusters[c].items) : clusters[c].items[i].qty >= 1

(***************************************************************************)
(* SpecReprompt: a new number goes through the onboarding questions with   *)
(* answers that yield a slot value or none, with and without a             *)
(* "referred by" in the text.                                              *)
(***************************************************************************)
SlotStates == {"awaiting_city", "awaiting_lagos_area", "awaiting_membership"}

\* An answer: what the gateway extracts, what the keyword fallback finds,
\* gateway configured or not, and the referral the text carries: none, one
\* written "referred by", one written "Referred By".
SayReferredAnswer(state) ==
  {m \in {[BaseMsg EXCEPT !.text = "amaka", !.ai = a, !.extract = e, !.fallback = f,
                          !.referred = r, !.referred_caps = c] :
            a \in BOOLEAN, e \in Extracts(state), f \in Extracts(state),
            r \in {"", "Ada"}, c \in BOOLEAN} :
     m.referred_caps => m.referred = ""}

\* Neither the extraction nor the fallback yields a value (awaiting_lagos_area
\* has no fallback).
NoSlotValue(state, msg) ==
  IF state = "awaiting_lagos_area" THEN ~msg.ai \/ msg.extract = ""
  ELSE Slot(msg) = ""

RepromptTurn ==
  \E phone \in {"p1", "p3"} :
    \E msg \in SayReferredAnswer(get_member(DB, phone).state) :
      \E out \in {handle_inbound(DB, phone, msg)} :
        /\ get_member(DB, phone).state # "idle"
        /\ Commit(out.db)
        /\ result' = [kind |-> "turn", phone |-> phone, ret |-> out.ret,
                      state_before |-> get_member(DB, phone).state,
                      no_slot |-> NoSlotValue(get_member(DB, phone).state, msg),
                      changed |-> Changed(DB, out.db)]
        /\ UNCHANGED <<procs, fnvars>>

NextReprompt == RepromptTurn

SpecReprompt == InitOnboard /\ [][NextReprompt]_vars

NoSlotTurn ==
  /\ result.kind = "turn"
  /\ result.state_before \in SlotStates
  /\ result.no_slot

RepromptReplies == {"ask_city_again", "ask_lagos_area_again", "ask_membership_again"}

\* The turn answers with the re-prompt and returns the state it was in.
Reprompted ==
  NoSlotTurn =>
    /\ result.ret.kind = "returned"
    /\ result.ret.reply \in RepromptReplies
    /\ result.ret.next_state = result.state_before

StateKept == NoSlotTurn => members[result.phone].state = result.state_before

NoFieldModified == NoSlotTurn => result.changed.members = {}

\* C34: in awaiting_city, awaiting_lagos_area and awaiting_membership, when
\* neither the gateway extraction nor the fallback yields a slot value, the
\* turn replies with a re-prompt, the returned and the persisted state stay
\* the same onboarding state, and no member field is modified.
C34_RepromptInPlace ==
  /\ Reprompted
  /\ StateKept
  /\ NoFieldModified

(***************************************************************************)
(* SpecFirstContact: first-contact turns of unknown numbers, one step per  *)
(* database call, so that two turns of the same number can overlap.  In    *)
(* this specification db.members is the list of its documents in insertion *)
(* order (the collection has no unique index on phone), and procs holds    *)
(* each running turn: its phone and the call it is about to make.          *)
(***************************************************************************)
Turns == {1, 2}
ContactPhones == {"p1", "p3"}

NoTurn == [pc |-> "idle", phone |-> NoPhone]

InitFirstContact ==
  /\ members = <<>>
  /\ carts = [p \in Phones |-> <<>>]
  /\ clusters = <<>>
  /\ orders = <<>>
  /\ commissions = <<>>
  /\ links = {}
  /\ sent = <<>>
  /\ notes = <<>>
  /\ result = [kind |-> "none", overlapped |-> FALSE]
  /\ procs = [t \in Turns |-> NoTurn]
  /\ fn_in = <<>>
  /\ fn_out = [done |-> FALSE]

\* find_one({"phone": phone}): the documents of that phone.
DocsOf(docs, phone) == {i \in 1..Len(docs) : docs[i].phone = phone}

\* update_one({"phone": phone}, {"$set": ...}, upsert=True): the first
\* matching document is updated; with no match one is inserted.
UpsertFirst(docs, phone, state) ==
  IF DocsOf(docs, phone) = {} THEN Append(docs, [phone |-> phone, state |-> state])
  ELSE LET i == CHOOSE j \in DocsOf(docs, phone) : \A k \in DocsOf(docs, phone) : j <= k
       IN [docs EXCEPT ![i].state = state]

\* The webhook hands a message of an unknown or known number to handle_inbound.
ContactArrives ==
  \E t \in Turns, phone \in ContactPhones :
    /\ procs[t].pc = "idle"
    /\ procs' = [procs EXCEPT ![t] = [pc |-> "get_member", phone |-> phone]]
    /\ result' = [kind |-> "arrive",
                  overlapped |-> result.overlapped
                                 \/ \E u \in Turns \ {t} : procs[u].pc # "idle"]
    /\ UNCHANGED <<store, sent, notes, fnvars>>

\* member = await self.get_member(phone): 1182.  A known number goes on to
\* its state handler, which inserts no member document.
ContactGetMember ==
  \E t \in Turns :
    /\ procs[t].pc = "get_member"
    /\ procs' = [procs EXCEPT ![t].pc =
                   IF DocsOf(members, procs[t].phone) = {} THEN "insert_one" ELSE "known"]
    /\ result' = [result EXCEPT !.kind = "get_member"]
    /\ UNCHANGED <<store, sent, notes, fnvars>>

\* await self.db.members.insert_one(member): 1202.
ContactInsert ==
  \E t \in Turns :
    /\ procs[t].pc = "insert_one"
    /\ members' = Append(members, [phone |-> procs[t].phone, state |-> "idle"])
    /\ procs' = [procs EXCEPT ![t].pc = "upsert"]
    /\ result' = [result EXCEPT !.kind = "insert_one"]
    /\ UNCHANGED <<carts, clusters, orders, commissions, links, sent, notes, fnvars>>

\* add_notification, upsert_member_state(awaiting_name) and the return:
\* 1205-1229.
ContactUpsert ==
  \E t \in Turns :
    /\ procs[t].pc = "upsert"
    /\ members' = UpsertFirst(members, procs[t].phone, "awaiting_name")
    /\ notes' = Append(notes, "member")
    /\ procs' = [procs EXCEPT ![t] = NoTurn]
    /\ result' = [result EXCEPT !.kind = "onboard"]
    /\ UNCHANGED <<carts, clusters, orders, commissions, links, sent, fnvars>>

\* The turn of a known number ends; its handler writes with
\* upsert_member_state, which keeps the documents of the phone as they are
\* in number.
ContactKnown ==
  \E t \in Turns :
    /\ procs[t].pc = "known"
    /\ members' = UpsertFirst(members, procs[t].phone,
                              members[CHOOSE i \in DocsOf(members, procs[t].phone) :
                                        \A k \in DocsOf(members, procs[t].phone) : i <= k].state)
    /\ procs' = [procs EXCEPT ![t] = NoTurn]
    /\ result' = [result EXCEPT !.kind = "known"]
    /\ UNCHANGED <<carts, clusters, orders, commissions, links, sent, notes, fnvars>>

NextFirstContact ==
  \/ ContactArrives
  \/ ContactGetMember
  \/ ContactInsert
  \/ ContactUpsert
  \/ ContactKnown

SpecFirstContact == InitFirstContact /\ [][NextFirstContact]_vars

OneRecordPerPhone == \A p \in ContactPhones : Cardinality(DocsOf(members, p)) <= 1

\* As long as no turn started while another was running, a phone has at most
\* one document.
OneRecordWithoutOverlap == ~result.overlapped => OneRecordPerPhone

\* Both turns of one unknown number are past get_member and before their
\* insert.
BothSawNoMember ==
  /\ procs[1].pc = "insert_one"
  /\ procs[2].pc = "insert_one"
  /\ procs[1].phone = procs[2].phone

\* C35: the members collection holds at most one record per phone in every
\* reachable state, also when two first-contact messages of the same unknown
\* phone are handled concurrently.
C35_OneRecordPerPhone == OneRecordPerPhone

(***************************************************************************)
(* The state a turn reports and the state it leaves stored, on SpecTurn    *)
(* (members in every conversation state, every gateway outcome).           *)
(***************************************************************************)
TurnReturned == result.kind = "turn" /\ result.ret.kind = "returned"

ReportedIsStored ==
  TurnReturned => result.ret.next_state = members[result.phone].state

\* A turn that reports idle leaves none of the three waiting states stored.
StoredWaiting(state) ==
  /\ TurnReturned
  /\ result.ret.next_state = "idle"
  /\ members[result.phone].state = state

NotLeftInPaymentProof == ~StoredWaiting("awaiting_payment_proof")
NotLeftInCartAction == ~StoredWaiting("awaiting_cart_action")
NotLeftInMembership == ~StoredWaiting("awaiting_membership")

\* C36: after every non-admin turn of handle_inbound the next state returned
\* to the caller equals the member's persisted state; in particular a member
\* never stays stored in awaiting_payment_proof, awaiting_cart_action or
\* awaiting_membership while the turn reported idle.
C36_ReportedIsStored ==
  /\ ReportedIsStored
  /\ NotLeftInPaymentProof
  /\ NotLeftInCartAction
  /\ NotLeftInMembership

(***************************************************************************)
(* Order slugs on SpecClusterPaid: every checkout is one step, so no two   *)
(* checkouts overlap; the members live in Lagos Mainland and Lagos Island. *)
(***************************************************************************)
SlugsDiffer(i, j) == orders[i].slug # orders[j].slug

\* Orders of one city have different slugs.
SlugsUniquePerCity ==
  \A i, j \in 1..Len(orders) :
    (i # j /\ orders[i].city = orders[j].city) => SlugsDiffer(i, j)

\* C37: when checkouts do not overlap no two stored orders share a slug,
\* across all member cities, two cities with the same slug prefix included.
C37_SlugsUnique ==
  \A i, j \in 1..Len(orders) : i # j => SlugsDiffer(i, j)

(***************************************************************************)
(* SpecStaysPaid: the paid members p1 (without an order) and p2 (with a    *)
(* cart) send texts and pictures of every intent.                          *)
(***************************************************************************)
InitStaysPaid ==
  /\ members = [p \in Phones |->
       IF p = "p3" THEN NoMember ELSE Onboarded("PH", "paid", "addr", NoCluster, "")]
  /\ carts = [p \in Phones |-> IF p = "p2" THEN <<Line(Rice, 1)>> ELSE <<>>]
  /\ clusters = <<>>
  /\ orders = <<>>
  /\ commissions = <<>>
  /\ links = {}
  /\ NoEffects
  /\ procs = <<>>
  /\ fn_in = <<>>
  /\ fn_out = <<>>

\* A text, or a picture with its caption (MediaUrl0 set).
SayWithOrWithoutMedia ==
  {[BaseMsg EXCEPT !.intent = i, !.results = <<Rice>>, !.media = pic] :
     i \in TurnIntents, pic \in BOOLEAN}

StaysPaidTurn ==
  \E phone \in {"p1", "p2"} :
    \E msg \in SayWithOrWithoutMedia :
      \E out \in {handle_inbound(DB, phone, msg)} :
        /\ WithinBounds(out.db)
        /\ Len(out.db.clusters) <= MaxClusters
        /\ Commit(out.db)
        /\ result' = [kind |-> "turn", phone |-> phone, ret |-> out.ret]
        /\ UNCHANGED <<procs, fnvars>>

NextStaysPaid == StaysPaidTurn

SpecStaysPaid == InitStaysPaid /\ [][NextStaysPaid]_vars

StaysPaid(p) == members[p].payment_status = "paid" => members'[p].payment_status = "paid"

\* A turn that is not a payment confirmation with a picture keeps paid.
PaidKeptBut(p) ==
  (result'.kind = "turn" /\ result'.ret.kind = "returned"
     /\ result'.ret.intent # "payment_proof_received") => StaysPaid(p)

PaidKeptByOtherTurns == [][\A p \in Phones : PaidKeptBut(p)]_vars

\* A payment confirmation with a picture of a member who has an order keeps
\* paid.
PaidKeptWithOrder ==
  [][\A p \in Phones : LatestOrder(DB, p) # 0 => StaysPaid(p)]_vars

\* C38: once a member's payment_status is paid, no chat turn of that member
\* (onboarding step, payment confirmation with or without media, checkout,
\* cluster operation) changes payment_status to another value.
C38_PaidStaysPaid == [][\A p \in Phones : StaysPaid(p)]_vars
(***************************************************************************)
(* The cluster a member is in, and the cart get_cart gives them.           *)
(***************************************************************************)
BelongsTo(p, cid) ==
  /\ cid \in 1..Len(clusters)
  /\ p \in Range(clusters[cid].members)

CurrentClusterIsOwn ==
  \A p \in Phones :
    (members[p].exists /\ members[p].current_cluster_id # NoCluster)
      => BelongsTo(p, members[p].current_cluster_id)

\* The cart a turn of p reads and writes is the personal cart or the cart of
\* a cluster p is a member of.
CartOfOwnCluster ==
  \A p \in Phones :
    (members[p].exists /\ get_cart(DB, p, FALSE).cluster_id # NoCluster)
      => BelongsTo(p, get_cart(DB, p, FALSE).cluster_id)

\* C39: in every reachable state a member's current_cluster_id, when set,
\* names an existing cluster whose members list contains the member's phone,
\* and no chat turn lets a member read or write the cart of a cluster they
\* do not belong to.
C39_OwnClusterOnly ==
  /\ CurrentClusterIsOwn
  /\ CartOfOwnCluster

(***************************************************************************)
(* SpecLinkRace: the owner's cluster checkout in two steps, the links      *)
(* requested and sent (692-742) and the payment list stored (744-755),     *)
(* with the payment webhooks of the members delivered at any time after    *)
(* their link exists.  procs holds the checkout's position and what it is  *)
(* about to store, and the links already delivered.                        *)
(***************************************************************************)
NoLinkJob ==
  [pc |-> "idle", slug |-> NoSlug, payload |-> <<>>, clean_members |-> <<>>,
   delivered |-> {}]

InitLinkRace ==
  /\ members = [p \in Phones |-> Onboarded("PH", "paid", "addr", 1, "")]
  /\ carts = [p \in Phones |-> <<>>]
  /\ clusters = <<[PayFamily EXCEPT !.members = <<"p1", "p2", "p3">>]>>
  /\ orders = <<>>
  /\ commissions = <<>>
  /\ links = {}
  /\ NoEffects
  /\ procs = NoLinkJob
  /\ fn_in = <<>>
  /\ fn_out = <<>>

\* The checkout turn of the owner up to the last send_outbound of the loop of
\* initiate_cluster_payment_links.
LinkCheckoutBegin ==
  \E pay_fail \in SUBSET {"p2", "p3"} :
    \E o \in {create_order_from_cart(DB, "p1")} :
      \E issued \in {IssuePaymentLinks(o.db, o.slug, o.total, get_custom_cluster(DB, 1),
                                       [BaseMsg EXCEPT !.intent = "cart_checkout",
                                                       !.pay_fail = pay_fail])} :
        /\ procs.pc = "idle"
        /\ orders = <<>>
        /\ Commit(issued.db)
        /\ procs' = [procs EXCEPT !.pc = "store", !.slug = o.slug,
                                  !.payload = issued.payload,
                                  !.clean_members = issued.clean_members]
        /\ result' = [kind |-> "links_sent"]
        /\ UNCHANGED fnvars

\* 744-755 and the rest of the turn.
LinkCheckoutStore ==
  /\ procs.pc = "store"
  /\ Commit(upsert_member_state(
              StorePaymentList(DB, procs.slug, procs.payload, procs.clean_members,
                               get_custom_cluster(DB, 1)),
              "p1", [state |-> "idle", last_order_slug |-> procs.slug]))
  /\ procs' = [procs EXCEPT !.pc = "done"]
  /\ result' = [kind |-> "list_stored"]
  /\ UNCHANGED fnvars

\* A member pays through the link; the cluster_order webhook is handled.
LinkDelivery ==
  \E ev \in links \ procs.delivered, transport_ok \in BOOLEAN :
    /\ FindSlug(DB, ev.order_slug) # 0
    /\ Commit(ClusterOrderApply(DB, orders[FindSlug(DB, ev.order_slug)], ev, transport_ok))
    /\ procs' = [procs EXCEPT !.delivered = @ \cup {ev}]
    /\ result' = [kind |-> "delivery", during_checkout |-> procs.pc = "store"]
    /\ UNCHANGED fnvars

NextLinkRace == LinkCheckoutBegin \/ LinkCheckoutStore \/ LinkDelivery

SpecLinkRace == InitLinkRace /\ [][NextLinkRace]_vars

PaidPhones(order) ==
  {order.cluster_payments[k].phone :
     k \in {j \in 1..Len(order.cluster_payments) : order.cluster_payments[j].status = "PAID"}}

\* In this step every PAID entry stays PAID and the paid amount does not
\* go down.
PaidKept ==
  \A i \in 1..Len(orders) :
    /\ PaidPhones(orders[i]) \subseteq PaidPhones(orders'[i])
    /\ orders'[i].cluster_paid_amount_kobo >= orders[i].cluster_paid_amount_kobo

\* Every step but the storing of the payment list keeps what is paid.
PaidKeptButByStore == [][(procs.pc = "store" /\ procs'.pc = "done") \/ PaidKept]_vars

\* A webhook was handled between the sending of the links and the storing of
\* the payment list.
PaidDuringCheckout ==
  /\ procs.pc = "store"
  /\ \E i \in 1..Len(orders) : PaidPhones(orders[i]) # {}

\* C40: once an entry of an order's cluster_payments has status PAID it is
\* never removed or set back, and cluster_paid_amount_kobo never decreases,
\* also when a member's cluster_order webhook is handled while the owner's
\* checkout turn is still inside initiate_cluster_payment_links.
C40_PaidIsKept == [][PaidKept]_vars

====
